---------------------------- MODULE Spec2Model ----------------------------
(***************************************************************************)
(* Overlap detection between Herodian lines and Stephanos entries          *)
(* (compute_overlaps.py): Greek normalisation, shingling with CRC-32       *)
(* fingerprints, inverted indexes, candidate scoring, longest common       *)
(* block alignment, filtering, ranking and truncation.                     *)
(*                                                                         *)
(* A text is a sequence of Unicode codepoints (integers).  A token is a    *)
(* sequence of codepoints, a token list a sequence of tokens.  A 32-bit    *)
(* fingerprint is the pair <<hi, lo>> of its 16-bit halves.                *)
(***************************************************************************)
EXTENDS Integers, Sequences, FiniteSets, TLC

(***************************************************************************)
(* Generic helpers on sequences and sets.                                  *)
(***************************************************************************)
Range(s) == {s[i] : i \in 1..Len(s)}

\* list(...): the items of a sequence given as a function on 1..n
List(f) == f \o <<>>

Min(x, y) == IF x <= y THEN x ELSE y

Max(x, y) == IF x >= y THEN x ELSE y

\* Python slice s[i : i + k] for 0 <= i, 0-based i
Slice(s, i, k) == SubSeq(s, i + 1, Min(Len(s), i + k))

\* a variant of Prefix that keeps one item too many: s[:n + 1]
Prefix_one_more(s, n) ==
    IF n >= 0 THEN SubSeq(s, 1, Min(Len(s), n + 1))
    ELSE SubSeq(s, 1, Max(0, Len(s) + n + 1))

\* Python slice s[:n], n of any sign
Prefix(s, n) ==
    IF n >= 0 THEN SubSeq(s, 1, Min(Len(s), n))
    ELSE SubSeq(s, 1, Max(0, Len(s) + n))

RECURSIVE FlattenRange(_, _, _)
\* ss[lo] \o ... \o ss[hi], halving the range to keep the evaluation shallow
FlattenRange(ss, lo, hi) ==
    IF lo > hi THEN <<>>
    ELSE IF lo = hi THEN ss[lo]
    ELSE LET mid == (lo + hi) \div 2
         IN  FlattenRange(ss, lo, mid) \o FlattenRange(ss, mid + 1, hi)

Flatten(ss) == FlattenRange(ss, 1, Len(ss))

\* all orders in which the members of the finite set S can be enumerated
Orders(S) ==
    {f \in [1..Cardinality(S) -> S] : \A i, j \in 1..Cardinality(S) : i # j => f[i] # f[j]}

(***************************************************************************)
(* Unicode data (unicodedata 14.0.0) for the codepoints of the model's     *)
(* texts and of their decompositions.                                      *)
(***************************************************************************)
FINAL_SIGMA == 962

SIGMA == 963

CAPITAL_SIGMA == 931

\* unicodedata.normalize("NFD", ch) for one codepoint (canonical decomposition)
NFD(c) ==
    CASE c = 7940 -> <<945, 787, 769>>     \* U+1F04 -> alpha, psili, oxia
      [] c = 7952 -> <<949, 787>>          \* U+1F10 -> epsilon, psili
      [] c = 8054 -> <<953, 768>>          \* U+1F76 -> iota, varia
      [] c = 972  -> <<959, 769>>          \* U+03CC -> omicron, tonos
      [] c = 940  -> <<945, 769>>          \* U+03AC -> alpha, tonos
      [] c = 902  -> <<913, 769>>          \* U+0386 -> Alpha, tonos
      [] c = 903  -> <<183>>               \* U+0387 ano teleia -> U+00B7
      [] c = 8486 -> <<937>>               \* U+2126 ohm sign -> U+03A9 Omega
      [] OTHER    -> <<c>>

\* unicodedata.combining(ch) # 0
Combining(c) == c \in {768, 769, 787, 837}

\* codepoints that str.lower() skips when it looks for the context of a capital sigma
CaseIgnorable(c) == Combining(c) \/ c \in {183, 885, 890, 900, 8125}

\* cased codepoints: the letters of the model that have a case
Cased(c) ==
    c \in {65, 97, 98, 99, 902, 913, 931, 937, 940, 945, 946, 949, 952, 953, 954, 955, 957, 959,
           960, 961, 962, 963, 964, 966, 969, 972, 978, 7940, 7952, 8054, 8486}

\* the simple lower-case mapping of one codepoint (U+03D2 is Lu and has none)
LowerCp(c) ==
    CASE c = 65  -> 97
      [] c = 913 -> 945
      [] c = 902 -> 940
      [] c = 931 -> 963
      [] c = 937 -> 969
      [] c = 8486 -> 969
      [] OTHER   -> c

\* str.isalpha() of one codepoint (categories Lu, Ll, Lt, Lm, Lo)
IsAlpha(c) ==
    c \in {65, 97, 98, 99, 890, 902, 913, 931, 940, 945, 946, 949, 952, 953, 954, 955, 957,
           959, 960, 961, 962, 963, 964, 966, 969, 972, 978, 7940, 7952, 8054, 8486}

\* a variant of InGreekRange whose first range has lost its lower end
InGreekRange_no_lower_end(c) == c <= 1023 \/ (7936 <= c /\ c <= 8191)

\* the character class [Ͱ-Ͽἀ-῿]
InGreekRange(c) == (880 <= c /\ c <= 1023) \/ (7936 <= c /\ c <= 8191)

(***************************************************************************)
(* Normalizer.                                                             *)
(***************************************************************************)
strip_diacritics(text) ==
    LET decomposed == Flatten([i \in 1..Len(text) |-> NFD(text[i])])
        Keep(ch) == ~Combining(ch)
    IN  SelectSeq(decomposed, Keep)

\* str.lower(): the capital sigma becomes the final sigma at the end of a word
FinalSigmaAt(s, i) ==
    LET before == {j \in 1..(i - 1) : ~CaseIgnorable(s[j])}
        after  == {j \in (i + 1)..Len(s) : ~CaseIgnorable(s[j])}
        Last(S)  == CHOOSE j \in S : \A k \in S : k <= j
        First(S) == CHOOSE j \in S : \A k \in S : k >= j
    IN  /\ before # {}
        /\ Cased(s[Last(before)])
        /\ (after = {} \/ ~Cased(s[First(after)]))

lower(s) ==
    List([i \in 1..Len(s) |->
            IF s[i] = CAPITAL_SIGMA
            THEN IF FinalSigmaAt(s, i) THEN FINAL_SIGMA ELSE SIGMA
            ELSE LowerCp(s[i])])

\* a normaliser that leaves the final sigma as it is
replace_final_sigma_missing(s) == s

\* str.replace("ς", "σ")
replace_final_sigma(s) ==
    List([i \in 1..Len(s) |-> IF s[i] = FINAL_SIGMA THEN SIGMA ELSE s[i]])

normalize_base(text) == replace_final_sigma(lower(strip_diacritics(text)))

normalize_greek_letters(text) ==
    LET Keep(ch) == InGreekRange(ch) /\ IsAlpha(ch)
    IN  SelectSeq(normalize_base(text), Keep)

\* GREEK_WORD_RE.findall: the maximal runs of codepoints of the character class,
\* from left to right (a run starts where the class begins and ends where it ends)
GREEK_WORD_RE_findall(base) ==
    LET In(i) == i >= 1 /\ i <= Len(base) /\ InGreekRange(base[i])
        starts == {i \in 1..Len(base) : In(i) /\ ~In(i - 1)}
        EndOf(i) == CHOOSE j \in i..Len(base) :
                        /\ \A m \in i..j : In(m)
                        /\ ~In(j + 1)
        Nth(n) == CHOOSE i \in starts : Cardinality({m \in starts : m < i}) = n - 1
    IN  List([n \in 1..Cardinality(starts) |-> SubSeq(base, Nth(n), EndOf(Nth(n)))])

normalize_greek_words(text) == GREEK_WORD_RE_findall(normalize_base(text))

(***************************************************************************)
(* Shingle hasher: CRC-32 (IEEE, reflected polynomial 0xEDB88320) of the   *)
(* UTF-8 bytes.  The 32-bit register is the tuple of its four bytes, the   *)
(* most significant first.                                                 *)
(***************************************************************************)
\* 0xEDB88320
CRC_POLY == <<237, 184, 131, 32>>

\* a ^ b for 0 <= a, b < 16
XOR4 ==
    [a \in 0..15 |-> [b \in 0..15 |->
        LET Bit(i) == (((a \div (2 ^ i)) % 2) + ((b \div (2 ^ i)) % 2)) % 2
        IN  Bit(0) + 2 * Bit(1) + 4 * Bit(2) + 8 * Bit(3)]]

\* a ^ b for 0 <= a, b < 256
Xor8(a, b) == 16 * XOR4[a \div 16][b \div 16] + XOR4[a % 16][b % 16]

Xor32(x, y) == <<Xor8(x[1], y[1]), Xor8(x[2], y[2]), Xor8(x[3], y[3]), Xor8(x[4], y[4])>>

\* x >> 1
ShiftRight1(x) ==
    <<x[1] \div 2,
      (x[2] \div 2) + 128 * (x[1] % 2),
      (x[3] \div 2) + 128 * (x[2] % 2),
      (x[4] \div 2) + 128 * (x[3] % 2)>>

\* str.encode("utf-8") of one codepoint below U+10000
Utf8Cp(c) ==
    IF c < 128 THEN <<c>>
    ELSE IF c < 2048 THEN <<192 + (c \div 64), 128 + (c % 64)>>
    ELSE <<224 + (c \div 4096), 128 + ((c \div 64) % 64), 128 + (c % 64)>>

utf8_encode(s) == Flatten([i \in 1..Len(s) |-> Utf8Cp(s[i])])

RECURSIVE CrcBits(_, _)
\* n rounds of the bitwise register update: shift right, xor the polynomial on carry
CrcBits(reg, n) ==
    IF n = 0 THEN reg
    ELSE LET r == CrcBits(reg, n - 1)
         IN  IF r[4] % 2 = 1 THEN Xor32(ShiftRight1(r), CRC_POLY) ELSE ShiftRight1(r)

\* the byte table of the checksum: eight rounds on each byte value
CRC_TABLE == [b \in 0..255 |-> CrcBits(<<0, 0, 0, b>>, 8)]

\* one byte: reg = table[(reg ^ b) & 0xFF] ^ (reg >> 8)
CrcByte(reg, b) ==
    LET t == CRC_TABLE[Xor8(reg[4], b)]
    IN  <<t[1], Xor8(t[2], reg[1]), Xor8(t[3], reg[2]), Xor8(t[4], reg[3])>>

RECURSIVE CrcRun(_, _, _, _)
\* the register reg after the bytes lo..hi: the first half of them, then the rest from
\* the four-byte register the first half leaves
CrcRun(bytes, reg, lo, hi) ==
    IF lo > hi THEN reg
    ELSE IF lo = hi THEN CrcByte(reg, bytes[lo])
    ELSE LET mid == (lo + hi) \div 2
             half == CrcRun(bytes, reg, lo, mid)
         IN  CASE Len(half) = 4 -> CrcRun(bytes, half, mid + 1, hi)

\* a checksum without the inversion at the end
zlib_crc32_not_inverted(bytes) ==
    LET reg == CrcRun(bytes, <<255, 255, 255, 255>>, 1, Len(bytes))
    IN  <<256 * reg[1] + reg[2], 256 * reg[3] + reg[4]>>

\* zlib.crc32(bytes) & 0xFFFFFFFF, as <<high 16 bits, low 16 bits>>: the register
\* starts from 0xFFFFFFFF and is inverted at the end
zlib_crc32(bytes) ==
    LET reg == CrcRun(bytes, <<255, 255, 255, 255>>, 1, Len(bytes))
    IN  <<256 * (255 - reg[1]) + (255 - reg[2]), 256 * (255 - reg[3]) + (255 - reg[4])>>

crc32_u32(value) == zlib_crc32(utf8_encode(value))

\* a variant of char_shingles without the guard on the length: a text shorter than k
\* gives the fingerprint of the whole text
char_shingles_no_guard(text, k) ==
    IF text = <<>> \/ k <= 0 THEN {}
    ELSE {crc32_u32(Slice(text, i, k)) : i \in 0..Max(0, Len(text) - k)}

\* a variant of char_shingles that stops one offset early: range(len(text) - k)
char_shingles_one_short(text, k) ==
    IF text = <<>> \/ k <= 0 \/ Len(text) < k THEN {}
    ELSE {crc32_u32(Slice(text, i, k)) : i \in 0..(Len(text) - k - 1)}

char_shingles(text, k) ==
    IF text = <<>> \/ k <= 0 \/ Len(text) < k THEN {}
    ELSE {crc32_u32(Slice(text, i, k)) : i \in 0..(Len(text) - k)}

\* " ".join(words)
join_space(words) ==
    Flatten([i \in 1..(2 * Len(words) - 1) |->
                IF i % 2 = 1 THEN words[(i + 1) \div 2] ELSE <<32>>])

\* a variant of word_shingles without the guard on k: a length of zero or less gives
\* the fingerprint of the empty string
word_shingles_any_k(words, k) ==
    IF words = <<>> \/ Len(words) < k THEN {}
    ELSE IF k <= 0 THEN {crc32_u32(<<>>)}
    ELSE {crc32_u32(join_space(Slice(words, i, k))) : i \in 0..(Len(words) - k)}

word_shingles(words, k) ==
    IF words = <<>> \/ k <= 0 \/ Len(words) < k THEN {}
    ELSE {crc32_u32(join_space(Slice(words, i, k))) : i \in 0..(Len(words) - k)}

(***************************************************************************)
(* Alignment engine: difflib.SequenceMatcher(None, a, b, autojunk=False)   *)
(* .find_longest_match(0, len(a), 0, len(b)).  With no junk every element  *)
(* of b is indexed; j2len[i, j] is the length of the common run that ends  *)
(* at a[i] and b[j], and the best block is the first one, scanning i and   *)
(* then j upwards, whose length exceeds every block seen before.           *)
(***************************************************************************)
find_longest_match(a, b) ==
    LET j2len[i \in 0..Len(a), j \in 0..Len(b)] ==
            IF i = 0 \/ j = 0 THEN 0
            ELSE IF a[i] = b[j] THEN j2len[i - 1, j - 1] + 1
            ELSE 0
        cells == (1..Len(a)) \X (1..Len(b))
        lens == {j2len[c[1], c[2]] : c \in cells}
        bestsize == CHOOSE k \in lens : \A m \in lens : m <= k
        Before(c, d) == c[1] < d[1] \/ (c[1] = d[1] /\ c[2] < d[2])
        hits == {c \in cells : j2len[c[1], c[2]] = bestsize}
        first == CHOOSE c \in hits : \A d \in hits : d = c \/ Before(c, d)
    IN  IF bestsize = 0 THEN [a |-> 0, b |-> 0, size |-> 0]
        ELSE [a |-> first[1] - bestsize, b |-> first[2] - bestsize, size |-> bestsize]

\* a variant of longest_common_block_len with the automatic junk heuristic at work:
\* an element that occurs more than once in b takes no part in a block
longest_common_block_len_autojunk(a, b) ==
    LET popular == {x \in Range(b) : Cardinality({j \in 1..Len(b) : b[j] = x}) > 1}
        Run(i, j, n) == \A t \in 0..(n - 1) : a[i + t] = b[j + t] /\ b[j + t] \notin popular
        sizes == {n \in 0..Min(Len(a), Len(b)) :
                     \E i \in 1..(Len(a) - n + 1), j \in 1..(Len(b) - n + 1) : Run(i, j, n)}
    IN  CHOOSE n \in sizes : \A m \in sizes : m <= n

\* a variant of longest_common_block_len that searches b only up to the length of a:
\* find_longest_match(0, len(a), 0, len(a))
longest_common_block_len_bounds_of_a(a, b) ==
    IF a = <<>> \/ b = <<>> THEN 0
    ELSE find_longest_match(a, SubSeq(b, 1, Min(Len(a), Len(b)))).size

longest_common_block_len(a, b) ==
    IF a = <<>> \/ b = <<>> THEN 0
    ELSE find_longest_match(a, b).size

(***************************************************************************)
(* Ordered containers.  A dict or Counter is the sequence of its           *)
(* <<key, value>> items in insertion order.                                *)
(***************************************************************************)
\* the members of a finite set of integers in ascending order
Ascending(S) ==
    List([n \in 1..Cardinality(S) |-> CHOOSE x \in S : Cardinality({y \in S : y < x}) = n - 1])

Keys(items) == List([i \in 1..Len(items) |-> items[i][1]])

\* dict.get(key, default)
Get(items, key, default) ==
    IF \E i \in 1..Len(items) : items[i][1] = key
    THEN items[CHOOSE i \in 1..Len(items) : items[i][1] = key][2]
    ELSE default

\* the Counter after "counter[key] += 1" for every key of incs in turn: keys stand in
\* the order of their first increment
CounterOf(incs) ==
    LET firsts == {i \in 1..Len(incs) : \A j \in 1..(i - 1) : incs[j] # incs[i]}
        pos == Ascending(firsts)
    IN  List([n \in 1..Len(pos) |->
                <<incs[pos[n]], Cardinality({i \in 1..Len(incs) : incs[i] = incs[pos[n]]})>>])

\* sorted(seq, key, reverse=True) and list.sort(key, reverse=True): descending and
\* stable, elements with equal keys keep their order.  greater[j][i]: key(seq[j]) > key(seq[i])
StableSortDesc(seq, greater) ==
    LET Ahead(j, i) ==
            \/ greater[j][i]
            \/ (~greater[i][j] /\ j < i)
        Place(i) == 1 + Cardinality({j \in 1..Len(seq) : j # i /\ Ahead(j, i)})
    IN  List([n \in 1..Len(seq) |-> seq[CHOOSE i \in 1..Len(seq) : Place(i) = n]])

\* a variant of most_common that takes a limit of zero for no limit: most_common(n or None)
most_common_zero_is_all(counter, n) ==
    LET ByCount == [i \in 1..Len(counter) |-> [j \in 1..Len(counter) |-> counter[i][2] > counter[j][2]]]
    IN  IF n = 0 THEN StableSortDesc(counter, ByCount)
        ELSE IF n < 0 THEN <<>>
        ELSE Prefix(StableSortDesc(counter, ByCount), n)

\* Counter.most_common(n) = heapq.nlargest(n, items, key=count): nothing for n <= 0,
\* else the first n of the items sorted by count, descending and stable
most_common(counter, n) ==
    LET ByCount == [i \in 1..Len(counter) |-> [j \in 1..Len(counter) |-> counter[i][2] > counter[j][2]]]
    IN  IF n <= 0 THEN <<>> ELSE Prefix(StableSortDesc(counter, ByCount), n)

(***************************************************************************)
(* Ratios.  char_lcs / max(1, ...) is a float; for lengths below 2^26 two  *)
(* such floats are equal or ordered exactly as the fractions are, so a     *)
(* ratio is the fraction <<numerator, denominator>> in lowest terms.       *)
(***************************************************************************)
RECURSIVE GCD(_, _)
GCD(x, y) == IF y = 0 THEN x ELSE GCD(y, x % y)

\* a ratio taken with integer division
Ratio_integer_division(n, d) == <<n \div d, 1>>

\* a ratio with numerator and denominator exchanged
Ratio_inverted(n, d) == LET g == GCD(d, n) IN <<d \div g, n \div g>>

Ratio(n, d) == LET g == GCD(n, d) IN <<n \div g, d \div g>>

RatioLess(p, q) == p[1] * q[2] < q[1] * p[2]

(***************************************************************************)
(* Reference index.                                                        *)
(***************************************************************************)
\* StephanosEntry as fetch_stephanos_entries builds it from a row (lemma_id, text_body)
StephanosEntry(lemma_id, text_body) ==
    [lemma_id     |-> lemma_id,
     text_body    |-> text_body,
     norm_letters |-> normalize_greek_letters(text_body),
     norm_words   |-> normalize_greek_words(text_body)]

\* {e.lemma_id: e for e in stephanos_entries}: the last entry of an id wins
EntriesById(entries) ==
    LET ids == {entries[i].lemma_id : i \in 1..Len(entries)}
    IN  [id \in ids |->
            entries[CHOOSE i \in 1..Len(entries) :
                        /\ entries[i].lemma_id = id
                        /\ \A j \in (i + 1)..Len(entries) : entries[j].lemma_id # id]]

\* a variant that puts the new id at the head of the bucket: "index[sh].insert(0, lemma_id)"
AppendToBuckets_at_head(index, shingles, lemma_id) ==
    [sh \in (DOMAIN index) \cup shingles |->
        IF sh \in shingles
        THEN <<lemma_id>> \o (IF sh \in DOMAIN index THEN index[sh] ELSE <<>>)
        ELSE index[sh]]

\* a variant that stores a new bucket instead of appending: "index[sh] = [lemma_id]"
AppendToBuckets_overwrite(index, shingles, lemma_id) ==
    [sh \in (DOMAIN index) \cup shingles |->
        IF sh \in shingles THEN <<lemma_id>> ELSE index[sh]]

\* "index[sh].append(lemma_id)" for every shingle sh of one entry: the shingles of one
\* set are distinct, so each bucket of the set grows by one id, in whatever order the
\* set is iterated
AppendToBuckets(index, shingles, lemma_id) ==
    [sh \in (DOMAIN index) \cup shingles |->
        IF sh \in shingles
        THEN Append(IF sh \in DOMAIN index THEN index[sh] ELSE <<>>, lemma_id)
        ELSE index[sh]]

RECURSIVE IndexAfter(_, _, _)
\* the index after the first n entries; shingles[i] is the shingle set of entries[i]
IndexAfter(entries, shingles, n) ==
    IF n = 0 THEN <<>>
    ELSE AppendToBuckets(IndexAfter(entries, shingles, n - 1), shingles[n], entries[n].lemma_id)

\* a variant of build_inverted_indexes with the two shingle lengths swapped
build_inverted_indexes_swapped_k(entries, char_k, word_k) ==
    [char_index |-> IndexAfter(entries,
                        List([i \in 1..Len(entries) |-> char_shingles(entries[i].norm_letters, word_k)]),
                        Len(entries)),
     word_index |-> IndexAfter(entries,
                        List([i \in 1..Len(entries) |-> word_shingles(entries[i].norm_words, char_k)]),
                        Len(entries))]

build_inverted_indexes(entries, char_k, word_k) ==
    [char_index |-> IndexAfter(entries,
                        List([i \in 1..Len(entries) |-> char_shingles(entries[i].norm_letters, char_k)]),
                        Len(entries)),
     word_index |-> IndexAfter(entries,
                        List([i \in 1..Len(entries) |-> word_shingles(entries[i].norm_words, word_k)]),
                        Len(entries))]

\* a lookup that leaves an empty bucket behind for a missing key, as index[key] on a
\* defaultdict(list) does
AfterGet_inserting(index, key) ==
    IF key \in DOMAIN index THEN index
    ELSE [k \in (DOMAIN index) \cup {key} |-> IF k = key THEN <<>> ELSE index[k]]

\* the dictionary after index.get(key, default): get never stores the default, and the
\* indexes are plain dicts
AfterGet(index, key) == index

RECURSIVE AfterLookups(_, _, _, _)
\* the dictionary after the lookups of keys[lo], ..., keys[hi] in turn
AfterLookups(index, keys, lo, hi) ==
    IF lo > hi THEN index
    ELSE IF lo = hi THEN AfterGet(index, keys[lo])
    ELSE LET mid == (lo + hi) \div 2
             half == AfterLookups(index, keys, lo, mid)
         IN  CASE DOMAIN half = DOMAIN half -> AfterLookups(half, keys, mid + 1, hi)

\* a lookup that gives only the first id of the bucket
Bucket_first_only(index, sh) ==
    IF sh \in DOMAIN index THEN SubSeq(index[sh], 1, 1) ELSE <<>>

\* index.get(sh, ())
Bucket(index, sh) == IF sh \in DOMAIN index THEN index[sh] ELSE <<>>

(***************************************************************************)
(* Iteration of a set of fingerprints.  The order in which Python iterates *)
(* a set is not specified: every order for a small set, two opposite       *)
(* orders for a larger one.                                                *)
(***************************************************************************)
MaxPermSet == 3

FpLess(f, g) == f[1] < g[1] \/ (f[1] = g[1] /\ f[2] < g[2])

AscendingFp(S) ==
    List([n \in 1..Cardinality(S) |->
            CHOOSE x \in S : Cardinality({y \in S : FpLess(y, x)}) = n - 1])

Reverse(s) == List([i \in 1..Len(s) |-> s[Len(s) + 1 - i]])

IterationOrders(S) ==
    IF Cardinality(S) <= MaxPermSet THEN Orders(S)
    ELSE {AscendingFp(S), Reverse(AscendingFp(S))}

(***************************************************************************)
(* Candidate scorer, alignment, filter and ranker.                         *)
(***************************************************************************)
\* a variant of SortKey with the raw lengths ahead of the ratios
SortKey_lengths_first(d) ==
    <<<<d.char_lcs_len, 1>>, <<d.word_lcs_len, 1>>, d.char_lcs_ratio, d.word_lcs_ratio,
      <<d.shared_word_shingles, 1>>, <<d.shared_char_shingles, 1>>>>

\* the sort key of a scored match; every component as a fraction
SortKey(d) ==
    <<d.char_lcs_ratio, d.word_lcs_ratio, <<d.char_lcs_len, 1>>, <<d.word_lcs_len, 1>>,
      <<d.shared_word_shingles, 1>>, <<d.shared_char_shingles, 1>>>>

\* tuple comparison key(x) > key(y): the first component that differs decides
KeyGreater(x, y) ==
    \E i \in 1..6 :
        /\ RatioLess(SortKey(y)[i], SortKey(x)[i])
        /\ \A j \in 1..(i - 1) : SortKey(x)[j] = SortKey(y)[j]

\* a variant of BelowThresholds that skips a candidate below either threshold
BelowThresholds_either(char_lcs, word_lcs, min_char_lcs, min_word_lcs) ==
    char_lcs < min_char_lcs \/ word_lcs < min_word_lcs

\* the filter of the scoring loop: TRUE when the candidate is skipped
BelowThresholds(char_lcs, word_lcs, min_char_lcs, min_word_lcs) ==
    char_lcs < min_char_lcs /\ word_lcs < min_word_lcs

\* a combination that lists an id once for its character hits and once more for its
\* word hits
Combined_two_lists(char_hits, word_hits) ==
    List([i \in 1..Len(char_hits) |-> <<char_hits[i][1], char_hits[i][2]>>])
        \o List([i \in 1..Len(word_hits) |-> <<word_hits[i][1], word_hits[i][2] * 5>>])

\* a combination that gives a word hit the weight of a character hit
Combined_unweighted(char_hits, word_hits) ==
    LET new == SelectSeq(Keys(word_hits), LAMBDA id : Get(char_hits, id, 0) = 0)
        keys == Keys(char_hits) \o new
    IN  List([i \in 1..Len(keys) |->
                <<keys[i], Get(char_hits, keys[i], 0) + Get(word_hits, keys[i], 0)>>])

\* combined[lemma_id] += n for the character hits, then += n * 5 for the word hits
Combined(char_hits, word_hits) ==
    LET new == SelectSeq(Keys(word_hits), LAMBDA id : Get(char_hits, id, 0) = 0)
        keys == Keys(char_hits) \o new
    IN  List([i \in 1..Len(keys) |->
                <<keys[i], Get(char_hits, keys[i], 0) + Get(word_hits, keys[i], 0) * 5>>])

\* The call with the keyword arguments cfg and with the line's shingle sets iterated
\* in the orders char_order and word_order.  The value is the record of the call's
\* local variables; matches is what the call returns.
compute_best_matches_for_line(line_text, entries_by_id, char_index, word_index, cfg, char_order, word_order) ==
    LET line_letters == normalize_greek_letters(line_text)
        line_words == normalize_greek_words(line_text)
        line_char_sh == char_shingles(line_letters, cfg.char_k)
        line_word_sh == word_shingles(line_words, cfg.word_k)
        char_hits == CounterOf(Flatten([i \in 1..Len(char_order) |->
                                            Bucket(char_index, char_order[i])]))
        word_hits == CounterOf(Flatten([i \in 1..Len(word_order) |->
                                            Bucket(word_index, word_order[i])]))
        combined == Combined(char_hits, word_hits)
        candidates == Keys(most_common(combined, cfg.candidate_limit))
        known == SelectSeq(candidates, LAMBDA id : id \in DOMAIN entries_by_id)
        aligned == List([i \in 1..Len(known) |->
                       LET entry == entries_by_id[known[i]]
                           char_lcs == longest_common_block_len(line_letters, entry.norm_letters)
                           word_lcs == longest_common_block_len(line_words, entry.norm_words)
                       IN  [stephanos_lemma_id   |-> known[i],
                            char_lcs_len         |-> char_lcs,
                            char_lcs_ratio       |->
                                Ratio(char_lcs, Max(1, Min(Len(line_letters), Len(entry.norm_letters)))),
                            word_lcs_len         |-> word_lcs,
                            word_lcs_ratio       |->
                                Ratio(word_lcs, Max(1, Min(Len(line_words), Len(entry.norm_words)))),
                            shared_char_shingles |-> Get(char_hits, known[i], 0),
                            shared_word_shingles |-> Get(word_hits, known[i], 0)]])
        scored == SelectSeq(aligned,
                      LAMBDA d : ~BelowThresholds(d.char_lcs_len, d.word_lcs_len,
                                                  cfg.min_char_lcs, cfg.min_word_lcs))
        ranked == StableSortDesc(scored,
                      [i \in 1..Len(scored) |-> [j \in 1..Len(scored) |-> KeyGreater(scored[i], scored[j])]])
    IN  [line_text    |-> line_text,
         char_k       |-> cfg.char_k,
         word_k       |-> cfg.word_k,
         line_letters |-> line_letters,
         line_words   |-> line_words,
         line_char_sh |-> line_char_sh,
         line_word_sh |-> line_word_sh,
         char_hits    |-> char_hits,
         word_hits    |-> word_hits,
         combined     |-> combined,
         candidates   |-> candidates,
         aligned      |-> aligned,
         scored       |-> scored,
         ranked       |-> ranked,
         matches      |-> IF candidates = <<>> THEN <<>> ELSE Prefix(ranked, cfg.max_matches)]

\* the loop over the candidates, the sort and the slice (lines 193-233) from the local
\* variables that the statements before them have set
score_candidates(frame, entries_by_id, cfg) ==
    LET char_hits == CounterOf(frame.char_incs)
        word_hits == CounterOf(frame.word_incs)
        known == SelectSeq(frame.candidates, LAMBDA id : id \in DOMAIN entries_by_id)
        aligned == List([i \in 1..Len(known) |->
                       LET entry == entries_by_id[known[i]]
                           char_lcs == longest_common_block_len(frame.line_letters, entry.norm_letters)
                           word_lcs == longest_common_block_len(frame.line_words, entry.norm_words)
                       IN  [stephanos_lemma_id   |-> known[i],
                            char_lcs_len         |-> char_lcs,
                            char_lcs_ratio       |->
                                Ratio(char_lcs, Max(1, Min(Len(frame.line_letters), Len(entry.norm_letters)))),
                            word_lcs_len         |-> word_lcs,
                            word_lcs_ratio       |->
                                Ratio(word_lcs, Max(1, Min(Len(frame.line_words), Len(entry.norm_words)))),
                            shared_char_shingles |-> Get(char_hits, known[i], 0),
                            shared_word_shingles |-> Get(word_hits, known[i], 0)]])
        scored == SelectSeq(aligned,
                      LAMBDA d : ~BelowThresholds(d.char_lcs_len, d.word_lcs_len,
                                                  cfg.min_char_lcs, cfg.min_word_lcs))
        ranked == StableSortDesc(scored,
                      [i \in 1..Len(scored) |-> [j \in 1..Len(scored) |-> KeyGreater(scored[i], scored[j])]])
    IN  Prefix(ranked, cfg.max_matches)

(***************************************************************************)
(* Inputs of the model: argument sets, reference corpora and source lines. *)
(***************************************************************************)
Args(char_k, word_k, candidate_limit, max_matches, min_char_lcs, min_word_lcs) ==
    [char_k |-> char_k, word_k |-> word_k, candidate_limit |-> candidate_limit,
     max_matches |-> max_matches, min_char_lcs |-> min_char_lcs, min_word_lcs |-> min_word_lcs]

\* the defaults of the argument parser
DefaultArgs == Args(36, 5, 250, 10, 30, 4)

\* the arguments of the end-to-end scenario (limits at their defaults)
ScenarioArgs == Args(5, 2, 250, 10, 4, 2)

ArgSets ==
    {DefaultArgs, ScenarioArgs,
     Args(2, 1, 250, 10, 2, 1),
     Args(2, 1, 0, 10, 2, 1),
     Args(2, 1, 250, 1, 3, 2),
     Args(2, 1, 2, 2, 30, 1),
     Args(2, 2, 2, -1, 1, 1)}

\* "ἄνθρωπος καλός ἐστιν"
ScenarioEntryText ==
    <<7940, 957, 952, 961, 969, 960, 959, 962, 32, 954, 945, 955, 972, 962, 32,
      7952, 963, 964, 953, 957>>

\* "ἄνθρωπος καλός ἐστιν καὶ σοφός"
ScenarioLineText ==
    ScenarioEntryText \o <<32, 954, 945, 8054, 32, 963, 959, 966, 972, 962>>

\* rows (lemma_id, text_body) in the order of the query, ORDER BY l.id
Corpora ==
    {<<>>,
     <<<<1, ScenarioEntryText>>>>,
     <<<<1, <<945, 946>>>>,                            \* "αβ"
       <<2, <<954, 945>>>>,                            \* "κα"
       <<3, <<945, 946, 32, 954, 945, 32, 955, 945>>>>,  \* "αβ κα λα"
       <<4, <<945, 946, 954, 959>>>>,                  \* "αβκο"
       <<5, <<97, 98, 32, 969>>>>>>,                   \* "ab ω"
     <<<<1, <<97, 98>>>>,                              \* "ab": no Greek letter
       <<2, <<>>>>,                                    \* ""
       <<3, <<945, 946, 32, 954, 945>>>>,              \* "αβ κα"
       <<4, <<885, 32, 954, 945>>>>>>}                 \* "͵ κα": a numeral sign U+0375

LineTexts ==
    {<<>>,                                  \* ""
     <<97, 98, 44, 32, 49>>,                \* "ab, 1"
     <<97, 8486>>,                          \* "a" and the ohm sign U+2126
     <<945, 946, 32, 954, 945>>,            \* "αβ κα"
     <<902, 946, 44, 32, 954, 940>>,        \* "Άβ, κά"
     <<885>>,                               \* "͵": a token without a letter
     ScenarioLineText}

\* the most lines one run fetches
MaxLines == 2

\* the sequences of at most n members of S
SeqsUpTo(S, n) == UNION {[1..k -> S] : k \in 0..n}

LineLists == SeqsUpTo(LineTexts, MaxLines)

\* the longest sequence given to the alignment engine on its own
MaxSeqLen == 3

\* two letters and the space, and two tokens
LcsAlphabets == [string |-> {945, 946, 32}, tokens |-> {<<945>>, <<945, 946>>}]

(***************************************************************************)
(* main: the state of one run.                                             *)
(***************************************************************************)
VARIABLES
    pc,                 \* the place main has reached
    args,               \* the parsed arguments
    stephanos_entries,  \* list of StephanosEntry
    entries_by_id,      \* lemma_id -> StephanosEntry
    char_index,         \* fingerprint -> list of lemma ids
    word_index,
    herodian_lines,     \* list of [id, greek_text]
    calls,              \* the calls of compute_best_matches_for_line made so far
    rows_to_insert,     \* list of match rows
    lcs,                \* the alignment engine applied to one pair of sequences
    norm,               \* the normaliser, shingler and hasher applied to one text
    conc,               \* calls of compute_best_matches_for_line that run interleaved
    db                  \* the Herodian database and the transaction of main on it

vars == <<pc, args, stephanos_entries, entries_by_id, char_index, word_index,
          herodian_lines, calls, rows_to_insert, lcs, norm, conc, db>>

\* the tables stephanos_overlap_runs and stephanos_overlap_matches as committed, the
\* same tables as the open transaction sees them, the id that RETURNING gave, whether
\* the INSERT of the matches was executed, and whether the block was left by an exception
Tables(runs, matches) == [runs |-> runs, matches |-> matches]

NoDb == [committed |-> Tables({}, {}), before |-> Tables({}, {}), work |-> Tables({}, {}),
         run_id |-> 0, match_insert |-> FALSE, raised |-> FALSE]

NoLcs == [kind |-> "string", a |-> <<>>, b |-> <<>>, len |-> 0, rev |-> 0, done |-> FALSE]

\* the outputs for one text with shingle length k
Outputs(text, k) ==
    [letters |-> normalize_greek_letters(text),
     words   |-> normalize_greek_words(text),
     char_sh |-> char_shingles(normalize_greek_letters(text), k),
     word_sh |-> word_shingles(normalize_greek_words(text), k)]

\* the calls that run interleaved
Tasks == {1, 2}

\* the local variables of one call before its first statement
EmptyFrame ==
    [line_letters |-> <<>>, line_words |-> <<>>, line_char_sh |-> {}, line_word_sh |-> {},
     char_incs |-> <<>>, word_incs |-> <<>>, combined |-> <<>>, candidates |-> <<>>]

\* a call that has not started: its position, its loop index, its argument, the orders
\* in which it iterates its two shingle sets, and what it returns
IdleTask ==
    [pc |-> "start", i |-> 1, line_text |-> <<>>, char_order |-> <<>>, word_order |-> <<>>,
     result |-> <<>>]

NoConc == [tasks |-> [t \in Tasks |-> IdleTask], frames |-> [t \in Tasks |-> EmptyFrame]]

NoNorm == [text |-> <<>>, other |-> <<>>, k |-> 0, crc |-> <<0, 0>>,
           out |-> Outputs(<<>>, 0), other_out |-> Outputs(<<>>, 0), done |-> FALSE]

Init ==
    /\ pc = "fetch_entries"
    /\ args \in ArgSets
    /\ stephanos_entries = <<>>
    /\ entries_by_id = <<>>
    /\ char_index = <<>>
    /\ word_index = <<>>
    /\ herodian_lines = <<>>
    /\ calls = <<>>
    /\ rows_to_insert = <<>>
    /\ lcs = NoLcs
    /\ norm = NoNorm
    /\ conc = NoConc
    /\ db = NoDb

\* stephanos_entries = fetch_stephanos_entries(); entries_by_id = {...}
FetchStephanosEntries ==
    /\ pc = "fetch_entries"
    /\ \E rows \in Corpora :
        /\ stephanos_entries' = List([i \in 1..Len(rows) |-> StephanosEntry(rows[i][1], rows[i][2])])
        /\ entries_by_id' = EntriesById(stephanos_entries')
    /\ pc' = "build"
    /\ UNCHANGED <<args, char_index, word_index, herodian_lines, calls, rows_to_insert, lcs, norm, conc, db>>

\* a run that goes on to the lines without building the indexes
BuildInvertedIndexes_skipped ==
    /\ pc = "build"
    /\ pc' = "fetch_lines"
    /\ UNCHANGED <<args, stephanos_entries, entries_by_id, char_index, word_index,
                   herodian_lines, calls, rows_to_insert, lcs, norm, conc, db>>

\* char_index, word_index = build_inverted_indexes(...)
BuildInvertedIndexes ==
    /\ pc = "build"
    /\ LET built == build_inverted_indexes(stephanos_entries, args.char_k, args.word_k)
       IN  /\ char_index' = built.char_index
           /\ word_index' = built.word_index
    /\ pc' = "fetch_lines"
    /\ UNCHANGED <<args, stephanos_entries, entries_by_id, herodian_lines, calls, rows_to_insert, lcs, norm, conc, db>>

\* herodian_lines = fetch_herodian_lines(args.limit_lines)
FetchHerodianLines ==
    /\ pc = "fetch_lines"
    /\ \E texts \in LineLists :
        herodian_lines' = List([i \in 1..Len(texts) |-> [id |-> i, greek_text |-> texts[i]]])
    /\ pc' = "score"
    /\ UNCHANGED <<args, stephanos_entries, entries_by_id, char_index, word_index, calls, rows_to_insert, lcs, norm, conc, db>>

\* one row of rows_to_insert
MatchRow(line_id, m) ==
    [herodian_line_id     |-> line_id,
     stephanos_lemma_id   |-> m.stephanos_lemma_id,
     char_lcs_len         |-> m.char_lcs_len,
     char_lcs_ratio       |-> m.char_lcs_ratio,
     word_lcs_len         |-> m.word_lcs_len,
     word_lcs_ratio       |-> m.word_lcs_ratio,
     shared_char_shingles |-> m.shared_char_shingles,
     shared_word_shingles |-> m.shared_word_shingles]

\* one turn of the loop over herodian_lines: the call and the rows it adds
ScoreLine ==
    /\ pc = "score"
    /\ Len(calls) < Len(herodian_lines)
    /\ LET line == herodian_lines[Len(calls) + 1]
           char_sh == char_shingles(normalize_greek_letters(line.greek_text), args.char_k)
           word_sh == word_shingles(normalize_greek_words(line.greek_text), args.word_k)
       IN  \E char_order \in IterationOrders(char_sh), word_order \in IterationOrders(word_sh) :
              LET call == compute_best_matches_for_line(line.greek_text, entries_by_id,
                              char_index, word_index, args, char_order, word_order)
              IN  /\ calls' = Append(calls, call)
                  /\ rows_to_insert' = rows_to_insert \o
                        List([i \in 1..Len(calls'[Len(calls')].matches) |->
                                MatchRow(line.id, calls'[Len(calls')].matches[i])])
                  /\ char_index' = AfterLookups(char_index, char_order, 1, Len(char_order))
                  /\ word_index' = AfterLookups(word_index, word_order, 1, Len(word_order))
                  /\ entries_by_id' = AfterLookups(entries_by_id, calls'[Len(calls')].candidates,
                                                   1, Len(calls'[Len(calls')].candidates))
    /\ UNCHANGED <<pc, args, stephanos_entries, herodian_lines, lcs, norm, conc, db>>

\* the loop is over: the rows are inserted and the run is finished
Finish ==
    /\ pc = "score"
    /\ Len(calls) = Len(herodian_lines)
    /\ pc' = "done"
    /\ UNCHANGED <<args, stephanos_entries, entries_by_id, char_index, word_index,
                   herodian_lines, calls, rows_to_insert, lcs, norm, conc, db>>

Next ==
    \/ FetchStephanosEntries
    \/ BuildInvertedIndexes
    \/ FetchHerodianLines
    \/ ScoreLine
    \/ Finish

Spec == Init /\ [][Next]_vars

(***************************************************************************)
(* The alignment engine on its own: longest_common_block_len applied to    *)
(* two strings or two token lists, in both orders of its arguments.        *)
(***************************************************************************)
InitLCS ==
    /\ pc = "align"
    /\ args = DefaultArgs
    /\ stephanos_entries = <<>>
    /\ entries_by_id = <<>>
    /\ char_index = <<>>
    /\ word_index = <<>>
    /\ herodian_lines = <<>>
    /\ calls = <<>>
    /\ rows_to_insert = <<>>
    /\ norm = NoNorm
    /\ conc = NoConc
    /\ db = NoDb
    /\ \E kind \in DOMAIN LcsAlphabets :
          \E a \in SeqsUpTo(LcsAlphabets[kind], MaxSeqLen), b \in SeqsUpTo(LcsAlphabets[kind], MaxSeqLen) :
              lcs = [NoLcs EXCEPT !.kind = kind, !.a = a, !.b = b]

Align ==
    /\ pc = "align"
    /\ ~lcs.done
    /\ lcs' = [lcs EXCEPT !.len = longest_common_block_len(lcs.a, lcs.b),
                          !.rev = longest_common_block_len(lcs.b, lcs.a),
                          !.done = TRUE]
    /\ UNCHANGED <<pc, args, stephanos_entries, entries_by_id, char_index, word_index,
                   herodian_lines, calls, rows_to_insert, norm, conc, db>>

NextLCS == Align

SpecLCS == InitLCS /\ [][NextLCS]_vars

(***************************************************************************)
(* The normaliser, the shinglers and the hasher on their own: applied to a *)
(* text and to a second text that differs from it only in the form of the  *)
(* sigma, in a diacritic or in case.                                       *)
(***************************************************************************)
\* the longest text
MaxTextLen == 3

\* α, Ά, σ, ς, Σ, ϒ (U+03D2), the lower numeral sign U+0375, the space, and the
\* combining acute U+0301
NormAlphabet == {945, 902, 963, 962, 931, 978, 885, 32, 769}

\* "abc"
GoldenText == <<97, 98, 99>>

NormTexts == SeqsUpTo(NormAlphabet, MaxTextLen) \cup {GoldenText}

\* the codepoints that spell the same letter as c: other cases, accents, sigma forms
SameLetter(c) ==
    IF c \in {945, 902} THEN {945, 902}
    ELSE IF c \in {963, 962, 931} THEN {963, 962, 931}
    ELSE {c}

\* text without its combining marks
Unmarked(text) ==
    LET NoMark(c) == ~Combining(c)
    IN  SelectSeq(text, NoMark)

\* the texts with the letters of text, position by position, in any spelling
SpelledAs(text) ==
    {u \in [1..Len(text) -> UNION {SameLetter(text[i]) : i \in 1..Len(text)}] :
        \A i \in 1..Len(text) : u[i] \in SameLetter(text[i])}

\* the texts that differ from text only in the form of a sigma, in a diacritic or in
\* the case of a letter
Respellings(text) == SpelledAs(text) \cup SpelledAs(Unmarked(text))

\* shingle lengths given to char_shingles and word_shingles
ShingleLengths == {-1, 0, 1, 2}

InitNorm ==
    /\ pc = "normalize"
    /\ args = DefaultArgs
    /\ stephanos_entries = <<>>
    /\ entries_by_id = <<>>
    /\ char_index = <<>>
    /\ word_index = <<>>
    /\ herodian_lines = <<>>
    /\ calls = <<>>
    /\ rows_to_insert = <<>>
    /\ lcs = NoLcs
    /\ conc = NoConc
    /\ db = NoDb
    /\ \E text \in NormTexts :
          \E other \in Respellings(text) :
              norm = [NoNorm EXCEPT !.text = text, !.other = List(other)]

Normalize ==
    /\ pc = "normalize"
    /\ ~norm.done
    /\ \E k \in ShingleLengths :
          norm' = [norm EXCEPT !.k = k,
                               !.crc = crc32_u32(norm.text),
                               !.out = Outputs(norm.text, k),
                               !.other_out = Outputs(norm.other, k),
                               !.done = TRUE]
    /\ UNCHANGED <<pc, args, stephanos_entries, entries_by_id, char_index, word_index,
                   herodian_lines, calls, rows_to_insert, lcs, conc, db>>

NextNorm == Normalize

SpecNorm == InitNorm /\ [][NextNorm]_vars

(***************************************************************************)
(* Two calls of compute_best_matches_for_line for different lines against  *)
(* the same indexes, interleaved statement by statement.  Each call has    *)
(* its own position and its own frame of local variables.                  *)
(***************************************************************************)
\* one frame for all calls, as if the counters and lists were module-level variables
Frame_shared(t) == 1

\* the frame that holds the local variables of call t: every call has its own
Frame(t) == t

ConcArgs == {Args(2, 1, 250, 10, 2, 1), Args(2, 1, 1, 10, 2, 1)}

\* the corpus of five entries
ConcCorpus == CHOOSE rows \in Corpora : Len(rows) = 5

ConcLineTexts ==
    {<<945, 946, 32, 954, 945>>,    \* "αβ κα"
     <<954, 945>>,                  \* "κα"
     <<945, 946, 954, 959>>}        \* "αβκο"

InitConc ==
    /\ pc = "concurrent"
    /\ args \in ConcArgs
    /\ stephanos_entries =
          List([i \in 1..Len(ConcCorpus) |-> StephanosEntry(ConcCorpus[i][1], ConcCorpus[i][2])])
    /\ entries_by_id = EntriesById(stephanos_entries)
    /\ char_index = build_inverted_indexes(stephanos_entries, args.char_k, args.word_k).char_index
    /\ word_index = build_inverted_indexes(stephanos_entries, args.char_k, args.word_k).word_index
    /\ \E first, second \in ConcLineTexts :
          /\ first # second
          /\ herodian_lines = <<[id |-> 1, greek_text |-> first], [id |-> 2, greek_text |-> second]>>
    /\ calls = <<>>
    /\ rows_to_insert = <<>>
    /\ lcs = NoLcs
    /\ norm = NoNorm
    /\ conc = NoConc
    /\ db = NoDb

ConcUnchanged ==
    UNCHANGED <<pc, args, stephanos_entries, entries_by_id, char_index, word_index,
                herodian_lines, calls, rows_to_insert, lcs, norm, db>>

\* lines 168-175: the line is normalised and shingled, the two counters are created empty
StartCall(t) ==
    /\ pc = "concurrent"
    /\ conc.tasks[t].pc = "start"
    /\ LET line_text == herodian_lines[t].greek_text
           line_letters == normalize_greek_letters(line_text)
           line_words == normalize_greek_words(line_text)
           line_char_sh == char_shingles(line_letters, args.char_k)
           line_word_sh == word_shingles(line_words, args.word_k)
       IN  \E char_order \in IterationOrders(line_char_sh), word_order \in IterationOrders(line_word_sh) :
              conc' = [conc EXCEPT
                          !.tasks[t] = [pc |-> "char_hits", i |-> 1, line_text |-> line_text,
                                        char_order |-> char_order, word_order |-> word_order,
                                        result |-> <<>>],
                          !.frames[Frame(t)] =
                              [EmptyFrame EXCEPT !.line_letters = line_letters,
                                                 !.line_words = line_words,
                                                 !.line_char_sh = line_char_sh,
                                                 !.line_word_sh = line_word_sh]]
    /\ ConcUnchanged

\* lines 176-178, one turn of the loop: the ids of one bucket are counted
CharHit(t) ==
    /\ pc = "concurrent"
    /\ conc.tasks[t].pc = "char_hits"
    /\ conc.tasks[t].i <= Len(conc.tasks[t].char_order)
    /\ conc' = [conc EXCEPT
                    !.tasks[t].i = @ + 1,
                    !.frames[Frame(t)].char_incs =
                        @ \o Bucket(char_index, conc.tasks[t].char_order[conc.tasks[t].i])]
    /\ ConcUnchanged

\* the loop of line 176 is over
CharHitsDone(t) ==
    /\ pc = "concurrent"
    /\ conc.tasks[t].pc = "char_hits"
    /\ conc.tasks[t].i > Len(conc.tasks[t].char_order)
    /\ conc' = [conc EXCEPT !.tasks[t].pc = "word_hits", !.tasks[t].i = 1]
    /\ ConcUnchanged

\* lines 179-181, one turn of the loop
WordHit(t) ==
    /\ pc = "concurrent"
    /\ conc.tasks[t].pc = "word_hits"
    /\ conc.tasks[t].i <= Len(conc.tasks[t].word_order)
    /\ conc' = [conc EXCEPT
                    !.tasks[t].i = @ + 1,
                    !.frames[Frame(t)].word_incs =
                        @ \o Bucket(word_index, conc.tasks[t].word_order[conc.tasks[t].i])]
    /\ ConcUnchanged

\* the loop of line 179 is over
WordHitsDone(t) ==
    /\ pc = "concurrent"
    /\ conc.tasks[t].pc = "word_hits"
    /\ conc.tasks[t].i > Len(conc.tasks[t].word_order)
    /\ conc' = [conc EXCEPT !.tasks[t].pc = "combine", !.tasks[t].i = 1]
    /\ ConcUnchanged

\* lines 183-187
Combine(t) ==
    /\ pc = "concurrent"
    /\ conc.tasks[t].pc = "combine"
    /\ conc' = [conc EXCEPT
                    !.tasks[t].pc = "candidates",
                    !.frames[Frame(t)].combined =
                        Combined(CounterOf(conc.frames[Frame(t)].char_incs),
                                 CounterOf(conc.frames[Frame(t)].word_incs))]
    /\ ConcUnchanged

\* lines 189-191: the candidates are cut from the counter; with none the call returns
TakeCandidates(t) ==
    /\ pc = "concurrent"
    /\ conc.tasks[t].pc = "candidates"
    /\ LET candidates == Keys(most_common(conc.frames[Frame(t)].combined, args.candidate_limit))
       IN  conc' = [conc EXCEPT
                       !.tasks[t].pc = IF candidates = <<>> THEN "done" ELSE "score",
                       !.frames[Frame(t)].candidates = candidates]
    /\ ConcUnchanged

\* lines 193-233: the candidates are aligned, filtered, sorted and cut; the call returns
ScoreCandidates(t) ==
    /\ pc = "concurrent"
    /\ conc.tasks[t].pc = "score"
    /\ conc' = [conc EXCEPT
                    !.tasks[t].pc = "done",
                    !.tasks[t].result = score_candidates(conc.frames[Frame(t)], entries_by_id, args)]
    /\ ConcUnchanged

NextConc ==
    \E t \in Tasks :
        \/ StartCall(t)
        \/ CharHit(t)
        \/ CharHitsDone(t)
        \/ WordHit(t)
        \/ WordHitsDone(t)
        \/ Combine(t)
        \/ TakeCandidates(t)
        \/ ScoreCandidates(t)

SpecConc == InitConc /\ [][NextConc]_vars

(***************************************************************************)
(* The transaction of main on the Herodian database: the block             *)
(* `with her_conn:` holds the INSERT of the run row, the loop over the     *)
(* lines, the INSERT of the match rows and the UPDATE of finished_at.      *)
(* Any statement of the block may raise.                                   *)
(***************************************************************************)
\* leaving the block with the work committed whether or not an exception propagates
ExitTransaction_always_commits(d, exc) == [d EXCEPT !.committed = d.work, !.raised = exc]

\* leaving `with her_conn:`: the connection commits, or rolls back when an exception
\* propagates out of the block
ExitTransaction(d, exc) ==
    IF exc THEN [d EXCEPT !.work = d.committed, !.raised = TRUE]
           ELSE [d EXCEPT !.committed = d.work]

\* a row of stephanos_overlap_runs: id and whether finished_at is set
RunRow(id, finished_at) == [id |-> id, finished_at |-> finished_at]

\* the id a BIGSERIAL column gives to the next row
NextRunId(runs) ==
    LET ids == {0} \cup {r.id : r \in runs}
    IN  (CHOOSE m \in ids : \A n \in ids : n <= m) + 1

\* the tuples of rows_to_insert: every row with the run id in front
RowsOfRun(run_id, rows) == {[run_id |-> run_id, row |-> rows[i]] : i \in 1..Len(rows)}

TxnArgs == {Args(2, 1, 250, 10, 2, 1), Args(2, 1, 250, 1, 3, 2)}

TxnLineTexts ==
    {<<>>,                          \* "": no match
     <<945, 946, 32, 954, 945>>,    \* "αβ κα"
     <<954, 945>>}                  \* "κα"

\* the tables before the run: empty, or with one earlier run
EarlierTables == {Tables({}, {}), Tables({RunRow(1, TRUE)}, {})}

InitTxn ==
    /\ pc = "insert_run"
    /\ args \in TxnArgs
    /\ stephanos_entries =
          List([i \in 1..Len(ConcCorpus) |-> StephanosEntry(ConcCorpus[i][1], ConcCorpus[i][2])])
    /\ entries_by_id = EntriesById(stephanos_entries)
    /\ char_index = build_inverted_indexes(stephanos_entries, args.char_k, args.word_k).char_index
    /\ word_index = build_inverted_indexes(stephanos_entries, args.char_k, args.word_k).word_index
    /\ \E texts \in SeqsUpTo(TxnLineTexts, MaxLines) :
          herodian_lines = List([i \in 1..Len(texts) |-> [id |-> i, greek_text |-> texts[i]]])
    /\ calls = <<>>
    /\ rows_to_insert = <<>>
    /\ lcs = NoLcs
    /\ norm = NoNorm
    /\ conc = NoConc
    /\ \E tables \in EarlierTables :
          db = [NoDb EXCEPT !.committed = tables, !.before = tables, !.work = tables]

TxnUnchanged ==
    UNCHANGED <<args, stephanos_entries, entries_by_id, char_index, word_index,
                herodian_lines, calls, rows_to_insert, lcs, norm, conc>>

\* INSERT INTO stephanos_overlap_runs ... RETURNING id; rows_to_insert = []
InsertRun ==
    /\ pc = "insert_run"
    /\ db' = [db EXCEPT !.work.runs = @ \cup {RunRow(NextRunId(db.work.runs), FALSE)},
                        !.run_id = NextRunId(db.work.runs)]
    /\ pc' = "score"
    /\ TxnUnchanged

\* if rows_to_insert: execute_values(INSERT INTO stephanos_overlap_matches ...)
InsertMatches ==
    /\ pc = "score"
    /\ Len(calls) = Len(herodian_lines)
    /\ db' = IF rows_to_insert # <<>>
                THEN [db EXCEPT !.work.matches = @ \cup RowsOfRun(db.run_id, rows_to_insert),
                                !.match_insert = TRUE]
                ELSE db
    /\ pc' = "update_run"
    /\ TxnUnchanged

\* UPDATE stephanos_overlap_runs SET finished_at = now WHERE id = run_id
UpdateRun ==
    /\ pc = "update_run"
    /\ db' = [db EXCEPT !.work.runs =
                 {IF r.id = db.run_id THEN RunRow(r.id, TRUE) ELSE r : r \in @}]
    /\ pc' = "exit"
    /\ TxnUnchanged

\* the end of the block is reached: commit, then her_conn.close()
Commit ==
    /\ pc = "exit"
    /\ db' = ExitTransaction(db, FALSE)
    /\ pc' = "closed"
    /\ TxnUnchanged

\* the statement main has reached raises (a statement of the block, the scoring of a
\* line, or the commit): the block is left by the exception, then her_conn.close()
Raise ==
    /\ pc \in {"insert_run", "score", "update_run", "exit"}
    /\ db' = ExitTransaction(db, TRUE)
    /\ pc' = "closed"
    /\ TxnUnchanged

NextTxn ==
    \/ InsertRun
    \/ ScoreLine
    \/ InsertMatches
    \/ UpdateRun
    \/ Commit
    \/ Raise

SpecTxn == InitTxn /\ [][NextTxn]_vars

(***************************************************************************)
(* Properties of compute_best_matches_for_line, over every call of a run.  *)
(***************************************************************************)
\* C1: a candidate is dropped exactly when its character-LCS length is below
\* min_char_lcs and its word-LCS length is below min_word_lcs: the survivors are the
\* aligned candidates that meet either threshold, in their order, and every returned
\* match meets either threshold.
C1_DroppedExactlyWhenBelowBoth ==
    \A i \in 1..Len(calls) :
        LET Meets(d) == d.char_lcs_len >= args.min_char_lcs \/ d.word_lcs_len >= args.min_word_lcs
        IN  /\ calls[i].scored = SelectSeq(calls[i].aligned, Meets)
            /\ \A n \in 1..Len(calls[i].matches) : Meets(calls[i].matches[n])

\* C1 happens: one call drops a candidate that is below both thresholds and returns a
\* match that meets the character threshold only.
C1_Witness ==
    \E i \in 1..Len(calls) :
        /\ \E n \in 1..Len(calls[i].aligned) :
              /\ calls[i].aligned[n].char_lcs_len < args.min_char_lcs
              /\ calls[i].aligned[n].word_lcs_len < args.min_word_lcs
              /\ calls[i].aligned[n].char_lcs_len > 0
        /\ \E n \in 1..Len(calls[i].matches) :
              /\ calls[i].matches[n].char_lcs_len >= args.min_char_lcs
              /\ calls[i].matches[n].word_lcs_len < args.min_word_lcs

\* m stands strictly below n in the lexicographic order of (char_lcs_ratio,
\* word_lcs_ratio, char_lcs_len, word_lcs_len, shared_word_shingles, shared_char_shingles)
TupleBelow(m, n) ==
    LET Lt(p, q) == p[1] * q[2] < q[1] * p[2]
    IN  \/ Lt(m.char_lcs_ratio, n.char_lcs_ratio)
        \/ /\ m.char_lcs_ratio = n.char_lcs_ratio
           /\ \/ Lt(m.word_lcs_ratio, n.word_lcs_ratio)
              \/ /\ m.word_lcs_ratio = n.word_lcs_ratio
                 /\ \/ m.char_lcs_len < n.char_lcs_len
                    \/ /\ m.char_lcs_len = n.char_lcs_len
                       /\ \/ m.word_lcs_len < n.word_lcs_len
                          \/ /\ m.word_lcs_len = n.word_lcs_len
                             /\ \/ m.shared_word_shingles < n.shared_word_shingles
                                \/ /\ m.shared_word_shingles = n.shared_word_shingles
                                   /\ m.shared_char_shingles < n.shared_char_shingles

\* C2: the returned list is in descending lexicographic order of the tuple, and a
\* match with the greater char_lcs_ratio comes before one with the smaller, whatever
\* their other fields.
C2_DescendingByTuple ==
    \A i \in 1..Len(calls) :
        \A a, b \in 1..Len(calls[i].matches) :
            LET A == calls[i].matches[a]
                B == calls[i].matches[b]
            IN  /\ (a < b => ~TupleBelow(A, B))
                /\ (A.char_lcs_ratio[1] * B.char_lcs_ratio[2] > B.char_lcs_ratio[1] * A.char_lcs_ratio[2]
                        => a < b)

\* C2 happens: a returned match with the greater ratio and the shorter block stands
\* before one with the smaller ratio and the longer block.
C2_Witness ==
    \E i \in 1..Len(calls) :
        \E a, b \in 1..Len(calls[i].matches) :
            /\ a < b
            /\ TupleBelow(calls[i].matches[b], calls[i].matches[a])
            /\ calls[i].matches[a].char_lcs_len < calls[i].matches[b].char_lcs_len

\* C3: for max_matches >= 0 the call returns at most max_matches matches, they are the
\* first max_matches of the sorted survivors, no survivor left out has a key strictly
\* greater than a returned match, and no survivor gives the empty list.
C3_FirstMaxMatches ==
    \A i \in 1..Len(calls) :
        args.max_matches >= 0 =>
            LET c == calls[i]
                n == IF args.max_matches < Len(c.scored) THEN args.max_matches ELSE Len(c.scored)
                Returned(d) == \E k \in 1..Len(c.matches) : c.matches[k] = d
            IN  /\ Len(c.matches) <= args.max_matches
                /\ Len(c.matches) = n
                /\ \A k \in 1..n : c.matches[k] = c.ranked[k]
                /\ \A j \in 1..Len(c.scored), k \in 1..Len(c.matches) :
                      ~Returned(c.scored[j]) => ~TupleBelow(c.matches[k], c.scored[j])
                /\ (c.scored = <<>> => c.matches = <<>>)

\* C3 happens: more candidates survive than max_matches allows, and some are returned.
C3_Witness ==
    \E i \in 1..Len(calls) :
        /\ args.max_matches >= 1
        /\ Len(calls[i].scored) > args.max_matches
        /\ Len(calls[i].matches) = args.max_matches

(***************************************************************************)
(* Properties of longest_common_block_len.                                 *)
(***************************************************************************)
\* the largest L such that L consecutive elements of a equal L consecutive elements of b
LongestCommonRun(a, b) ==
    LET Common(L) ==
            \E i \in 1..(Len(a) - L + 1), j \in 1..(Len(b) - L + 1) :
                \A t \in 0..(L - 1) : a[i + t] = b[j + t]
        shorter == IF Len(a) < Len(b) THEN Len(a) ELSE Len(b)
    IN  CHOOSE L \in 0..shorter : (L = 0 \/ Common(L)) /\ \A M \in (L + 1)..shorter : ~Common(M)

\* C4: longest_common_block_len(a, b) is the largest L such that some L consecutive
\* elements of a equal, element by element, some L consecutive elements of b, for
\* strings and for token lists; a repeated element takes part like any other.
C4_LongestCommonRun ==
    lcs.done => lcs.len = LongestCommonRun(lcs.a, lcs.b)

\* C4 happens: two token lists whose longest common run of two or more tokens holds a
\* token that occurs more than once in b.
C4_Witness ==
    /\ lcs.done
    /\ lcs.kind = "tokens"
    /\ lcs.len >= 2
    /\ lcs.a # lcs.b
    /\ \E j, k \in 1..Len(lcs.b) : j # k /\ lcs.b[j] = lcs.b[k]

\* C5: longest_common_block_len(a, b) = longest_common_block_len(b, a); the result is
\* 0 when a and b share no element and 0 when either is empty.
C5_SymmetricAndZero ==
    lcs.done =>
        /\ lcs.len = lcs.rev
        /\ (Range(lcs.a) \cap Range(lcs.b) = {} => lcs.len = 0)
        /\ (lcs.a = <<>> \/ lcs.b = <<>> => lcs.len = 0)

\* C5 happens: the first sequence is the shorter one and the common block lies in b
\* beyond the length of a.
C5_Witness ==
    /\ lcs.done
    /\ Len(lcs.a) < Len(lcs.b)
    /\ lcs.len = Len(lcs.a)
    /\ lcs.len > 0
    /\ SubSeq(lcs.b, 1, Len(lcs.a)) # lcs.a
    /\ Range(SubSeq(lcs.b, 1, Len(lcs.a))) \cap Range(lcs.a) = {}

(***************************************************************************)
(* Determinism, the end-to-end scenario and the degenerate inputs.         *)
(***************************************************************************)
\* C6: for the same entries, the same line text and the same configuration, the calls
\* return the same matches in the same order, whatever order the shingle sets and the
\* hit counters are iterated in.
C6_SameInputsSameMatches ==
    \A i, j \in 1..Len(calls) :
        calls[i].line_text = calls[j].line_text => calls[i].matches = calls[j].matches

\* C7: with the corpus of one entry (id 1) of three Greek words, the line of the same
\* three words and two more, and char_k=5, word_k=2, min_char_lcs=4, min_word_lcs=2,
\* the call returns exactly one match, with id 1 and word_lcs_len >= 2.
C7_EndToEnd ==
    \A i \in 1..Len(calls) :
        (/\ args = ScenarioArgs
         /\ Len(stephanos_entries) = 1
         /\ stephanos_entries[1].lemma_id = 1
         /\ stephanos_entries[1].text_body = ScenarioEntryText
         /\ calls[i].line_text = ScenarioLineText)
        => /\ Len(calls[i].matches) = 1
           /\ calls[i].matches[1].stephanos_lemma_id = 1
           /\ calls[i].matches[1].word_lcs_len >= 2

\* C7 happens: the scenario's call has been made, on three-token and five-token texts.
C7_Witness ==
    \E i \in 1..Len(calls) :
        /\ args = ScenarioArgs
        /\ Len(stephanos_entries) = 1
        /\ stephanos_entries[1].text_body = ScenarioEntryText
        /\ Len(stephanos_entries[1].norm_words) = 3
        /\ calls[i].line_text = ScenarioLineText
        /\ Len(calls[i].line_words) = 5
        /\ calls[i].matches # <<>>

\* C8: a line with fewer than char_k letters and fewer than word_k tokens gives the
\* empty list whatever the corpus and the indexes hold, and no alignment is computed.
C8_TooShortLine ==
    \A i \in 1..Len(calls) :
        (Len(calls[i].line_letters) < args.char_k /\ Len(calls[i].line_words) < args.word_k)
        => /\ calls[i].matches = <<>>
           /\ calls[i].candidates = <<>>
           /\ calls[i].aligned = <<>>

\* C8 happens: a line with one letter, below both shingle lengths, is scored against a
\* corpus one of whose entries has the same letter stream.
C8_Witness ==
    \E i \in 1..Len(calls) :
        /\ calls[i].line_letters # <<>>
        /\ Len(calls[i].line_letters) < args.char_k
        /\ Len(calls[i].line_words) < args.word_k
        /\ \E e \in 1..Len(stephanos_entries) :
              stephanos_entries[e].norm_letters = calls[i].line_letters
        /\ calls[i].matches = <<>>

\* C9: with candidate_limit = 0 the call returns the empty list for every corpus and
\* every line, also when the line shares shingles with entries.
C9_ZeroCandidateLimit ==
    \A i \in 1..Len(calls) :
        args.candidate_limit = 0 => calls[i].matches = <<>> /\ calls[i].aligned = <<>>

\* C9 happens: with candidate_limit = 0 a line that shares shingles with entries.
C9_Witness ==
    \E i \in 1..Len(calls) :
        /\ args.candidate_limit = 0
        /\ Len(calls[i].combined) >= 2
        /\ calls[i].matches = <<>>

\* U+0370..U+03FF and U+1F00..U+1FFF
InRanges(c) == (880 <= c /\ c <= 1023) \/ (7936 <= c /\ c <= 8191)

\* the outputs that C10 names are all empty
EmptyOutputs(c) ==
    /\ c.line_letters = <<>>
    /\ c.line_words = <<>>
    /\ c.line_char_sh = {}
    /\ c.line_word_sh = {}
    /\ c.matches = <<>>

\* C10, as stated: a text with no codepoint in the Greek ranges gives an empty letter
\* stream, an empty token list, empty shingle sets and an empty match list.
C10_NoGreekCodepoint ==
    \A i \in 1..Len(calls) :
        (\A n \in 1..Len(calls[i].line_text) : ~InRanges(calls[i].line_text[n]))
        => EmptyOutputs(calls[i])

\* C10, amended: a text none of whose codepoints has a Greek-range codepoint in its
\* canonical decomposition gives an empty letter stream, an empty token list, empty
\* shingle sets and an empty match list.
C10_NoGreekAfterDecomposition ==
    \A i \in 1..Len(calls) :
        (\A n \in 1..Len(calls[i].line_text) :
            \A k \in 1..Len(NFD(calls[i].line_text[n])) :
                ~InRanges(NFD(calls[i].line_text[n])[k]))
        => EmptyOutputs(calls[i])

\* C10 happens: a Latin text is scored against a corpus that holds an entry with Latin
\* letters, with shingle lengths the text reaches.
C10_Witness ==
    \E i \in 1..Len(calls) :
        /\ Len(calls[i].line_text) >= args.char_k
        /\ \A n \in 1..Len(calls[i].line_text) : ~InRanges(calls[i].line_text[n])
        /\ \E e \in 1..Len(stephanos_entries) :
              /\ Len(stephanos_entries[e].text_body) >= 2
              /\ SubSeq(stephanos_entries[e].text_body, 1, 2) = SubSeq(calls[i].line_text, 1, 2)
        /\ EmptyOutputs(calls[i])

(***************************************************************************)
(* Claims about the normaliser, the shinglers and the hasher (SpecNorm).   *)
(***************************************************************************)
\* general category Lu or Lt among the codepoints of the model: str.isupper() is true
UppercaseLetter(c) == c \in {65, 902, 913, 931, 937, 978, 8486}

\* C11: every codepoint of normalize_greek_letters(t) lies in U+0370..U+03FF or
\* U+1F00..U+1FFF, is alphabetic, is lowercase (no uppercase letter of those ranges
\* survives) and is not a combining mark.
C11_LettersLowercaseGreek ==
    norm.done =>
        \A i \in 1..Len(norm.out.letters) :
            /\ InRanges(norm.out.letters[i])
            /\ IsAlpha(norm.out.letters[i])
            /\ ~UppercaseLetter(norm.out.letters[i])
            /\ ~Combining(norm.out.letters[i])

\* the maximal runs of codepoints of the two ranges in s, as pairs <<first, last>>
MaximalRuns(s) ==
    {r \in (1..Len(s)) \X (1..Len(s)) :
        /\ r[1] <= r[2]
        /\ \A n \in r[1]..r[2] : InRanges(s[n])
        /\ (r[1] = 1 \/ ~InRanges(s[r[1] - 1]))
        /\ (r[2] = Len(s) \/ ~InRanges(s[r[2] + 1]))}

\* C12: each token of normalize_greek_words(t) is a maximal run of codepoints of the
\* two Greek ranges in the decomposed, lower-cased text, tokens appear in text order,
\* and no token contains a non-letter codepoint, the non-alphabetic codepoints of the
\* Greek ranges (numeral signs, tonos and the like) included.
C12_TokensAreLetterRuns ==
    norm.done =>
        LET base == normalize_base(norm.text)
            runs == MaximalRuns(base)
            words == norm.out.words
        IN  /\ Len(words) = Cardinality(runs)
            /\ \E start \in [1..Len(words) -> 1..(Len(base) + 1)] :
                  /\ \A i \in 1..Len(words) :
                        /\ <<start[i], start[i] + Len(words[i]) - 1>> \in runs
                        /\ words[i] = SubSeq(base, start[i], start[i] + Len(words[i]) - 1)
                  /\ \A i \in 1..(Len(words) - 1) : start[i] < start[i + 1]
            /\ \A i \in 1..Len(words) :
                  \A n \in 1..Len(words[i]) : IsAlpha(words[i][n])

\* the final sigma occurs in the sequence s
HasFinalSigma(s) == \E i \in 1..Len(s) : s[i] = 962

\* C13: the outputs of normalize_greek_letters and normalize_greek_words never contain
\* the word-final sigma, and two texts that differ only in final versus non-final sigma,
\* in diacritics or in case have equal letter streams, equal token lists and equal
\* shingle sets.
C13_FinalSigmaFolded ==
    norm.done =>
        /\ ~HasFinalSigma(norm.out.letters)
        /\ \A i \in 1..Len(norm.out.words) : ~HasFinalSigma(norm.out.words[i])
        /\ norm.out.letters = norm.other_out.letters
        /\ norm.out.words = norm.other_out.words
        /\ norm.out.char_sh = norm.other_out.char_sh
        /\ norm.out.word_sh = norm.other_out.word_sh

\* C13 happens: a text with a final sigma and an accented capital is normalised together
\* with a respelling that has neither, and both give the same non-empty shingle sets.
C13_Witness ==
    /\ norm.done
    /\ HasFinalSigma(norm.text)
    /\ ~HasFinalSigma(norm.other)
    /\ \E i \in 1..Len(norm.text) : norm.text[i] = 902 /\ norm.other[i] = 945
    /\ norm.out.char_sh # {}
    /\ norm.out.word_sh # {}
    /\ norm.out.char_sh = norm.other_out.char_sh

\* C14: char_shingles(text, k) is the empty set whenever k <= 0 or len(text) < k, and
\* word_shingles(words, k) is the empty set whenever k <= 0 or len(words) < k; both
\* are evaluated without error.
C14_DegenerateShinglesEmpty ==
    norm.done =>
        /\ (norm.k <= 0 \/ Len(norm.out.letters) < norm.k) => norm.out.char_sh = {}
        /\ (norm.k <= 0 \/ Len(norm.out.words) < norm.k) => norm.out.word_sh = {}
        /\ (norm.k > 0 /\ Len(norm.out.letters) >= norm.k) => norm.out.char_sh # {}
        /\ (norm.k > 0 /\ Len(norm.out.words) >= norm.k) => norm.out.word_sh # {}

\* C14 happens: a text with letters and tokens is shingled with a length of zero or
\* less and gives two empty sets.
C14_Witness ==
    /\ norm.done
    /\ norm.k <= 0
    /\ Len(norm.out.letters) >= 2
    /\ Len(norm.out.words) >= 2
    /\ norm.out.char_sh = {}
    /\ norm.out.word_sh = {}

\* C14 happens for the other case too: one letter, one token, shingle length 2
C14_WitnessShort ==
    /\ norm.done
    /\ norm.k = 2
    /\ Len(norm.out.letters) = 1
    /\ Len(norm.out.words) = 1
    /\ norm.out.char_sh = {}
    /\ norm.out.word_sh = {}

\* CRC-32/IEEE: the exponents of the generator polynomial below x^32
IEEE_TERMS == {26, 23, 22, 16, 12, 11, 10, 8, 7, 5, 4, 2, 1, 0}

\* the reflected polynomial 0xEDB88320 as the set of its one bits
IEEE_REFLECTED == {31 - t : t \in IEEE_TERMS}

\* exclusive or of two registers given as sets of one bits
BitXor(x, y) == (x \ y) \cup (y \ x)

\* the one bits of n, from bit `from` upwards
BitsOf(n, from) == {from + i : i \in {j \in 0..15 : (n \div (2 ^ j)) % 2 = 1}}

RECURSIVE SumBits(_)
\* the number whose one bits are the members of S
SumBits(S) ==
    IF S = {} THEN 0
    ELSE LET i == CHOOSE j \in S : TRUE
         IN  2 ^ i + SumBits(S \ {i})

RECURSIVE IeeeRounds(_, _)
\* n rounds of the reflected division: shift right, subtract the polynomial on carry
IeeeRounds(reg, n) ==
    IF n = 0 THEN reg
    ELSE LET r == IeeeRounds(reg, n - 1)
             shifted == {i - 1 : i \in r \ {0}}
         IN  IF 0 \in r THEN BitXor(shifted, IEEE_REFLECTED) ELSE shifted

RECURSIVE IeeeRegister(_, _)
\* the register after the first n bytes, starting from all ones
IeeeRegister(bytes, n) ==
    IF n = 0 THEN 0..31
    ELSE LET before == IeeeRegister(bytes, n - 1)
         IN  IeeeRounds(BitXor(before, BitsOf(bytes[n], 0)), 8)

\* the CRC-32/IEEE checksum of a byte string as <<high 16 bits, low 16 bits>>
IeeeCrc32(bytes) ==
    LET crc == (0..31) \ IeeeRegister(bytes, Len(bytes))
    IN  <<SumBits({i - 16 : i \in {j \in crc : j >= 16}}), SumBits({j \in crc : j < 16})>>

\* C15: crc32_u32(s) is the standard CRC-32/IEEE checksum (reflected polynomial
\* 0xEDB88320) of the UTF-8 bytes of s, it lies in 0..2^32-1, crc32_u32("") = 0 and
\* crc32_u32("abc") = 0x352441C2 (0x3524 = 13604, 0x41C2 = 16834).
C15_StandardCrc32 ==
    norm.done =>
        /\ norm.crc = IeeeCrc32(utf8_encode(norm.text))
        /\ norm.crc \in (0..65535) \X (0..65535)
        /\ norm.text = <<>> => norm.crc = <<0, 0>>
        /\ norm.text = GoldenText => norm.crc = <<13604, 16834>>
        /\ IEEE_REFLECTED = BitsOf(33568, 0) \cup BitsOf(60856, 16)

\* C15 happens: "abc" is hashed to 0x352441C2
C15_Witness ==
    /\ norm.done
    /\ norm.text = GoldenText
    /\ norm.crc = <<13604, 16834>>

(***************************************************************************)
(* Claims about the run (Spec).                                            *)
(***************************************************************************)
\* the columns of stephanos_overlap_matches that hold the offsets of the block in the
\* original texts
OffsetColumns ==
    {"herodian_char_start", "herodian_char_end", "stephanos_char_start", "stephanos_char_end"}

\* what longest_common_block_len gives for a and b, by name
AlignmentYield(a, b) == [size |-> longest_common_block_len(a, b)]

\* C16: for every candidate the alignment step yields, besides the block length, the
\* half-open index ranges of the longest common block in a and in b, and the start and
\* end offsets of the block in both original texts reach the persisted match.
C16_BlockRangesAndOffsets ==
    /\ \A i \in 1..Len(calls) :
          \A j \in 1..Len(calls[i].aligned) :
              LET entry == entries_by_id[calls[i].aligned[j].stephanos_lemma_id]
                  yield == AlignmentYield(calls[i].line_letters, entry.norm_letters)
              IN  /\ {"a", "b"} \subseteq DOMAIN yield
                  /\ yield.size = calls[i].aligned[j].char_lcs_len
    /\ \A i \in 1..Len(calls) :
          \A m \in 1..Len(calls[i].matches) :
              OffsetColumns \subseteq DOMAIN calls[i].matches[m]
    /\ \A r \in 1..Len(rows_to_insert) : OffsetColumns \subseteq DOMAIN rows_to_insert[r]

\* C17: a call of compute_best_matches_for_line leaves char_index, word_index and
\* entries_by_id unchanged: no bucket is added, removed, reordered or extended, also
\* when a fingerprint of the line has no bucket in the index.
C17_CallLeavesIndexes ==
    [][calls' # calls =>
          /\ char_index' = char_index
          /\ word_index' = word_index
          /\ entries_by_id' = entries_by_id]_vars

\* C17 happens: a call has looked up a character fingerprint and a word fingerprint
\* that have no bucket, and others that have one, in indexes that are not empty.
C17_Witness ==
    \E i \in 1..Len(calls) :
        /\ \E f \in calls[i].line_char_sh : f \notin DOMAIN char_index
        /\ \E f \in calls[i].line_word_sh : f \notin DOMAIN word_index
        /\ \E f \in calls[i].line_char_sh : f \in DOMAIN char_index
        /\ calls[i].candidates # <<>>

(***************************************************************************)
(* Claims about interleaved calls (SpecConc).                              *)
(***************************************************************************)
\* what call t returns when it runs alone, with the same iteration orders
ReturnedAlone(t) ==
    compute_best_matches_for_line(conc.tasks[t].line_text, entries_by_id, char_index,
        word_index, args, conc.tasks[t].char_order, conc.tasks[t].word_order).matches

\* C18: when calls of compute_best_matches_for_line for different lines run against
\* the same indexes, interleaved at any step, each returns exactly the match list it
\* returns when run alone.
C18_InterleavedAsAlone ==
    \A t \in Tasks : conc.tasks[t].pc = "done" => conc.tasks[t].result = ReturnedAlone(t)

\* C18 happens: both calls are done, the second started while the first was between
\* its statements, and they return different, non-empty lists.
C18_Witness ==
    /\ \A t \in Tasks : conc.tasks[t].pc = "done"
    /\ conc.tasks[1].result # <<>>
    /\ conc.tasks[2].result # <<>>
    /\ conc.tasks[1].result # conc.tasks[2].result
    /\ conc.frames[1].char_incs # conc.frames[2].char_incs

\* the ids of the entries
LemmaIds == {stephanos_entries[e].lemma_id : e \in 1..Len(stephanos_entries)}

\* the number of fingerprints of the set shingles whose bucket in index holds id
HitCount(index, shingles, id) ==
    Cardinality({f \in shingles : f \in DOMAIN index /\ id \in Range(index[f])})

\* the score that C19 gives the entry id for call i
CandidateScore(i, id) ==
    HitCount(char_index, calls[i].line_char_sh, id)
        + 5 * HitCount(word_index, calls[i].line_word_sh, id)

\* C19: each reference id has the score (number of the line's character fingerprints
\* whose bucket holds the id) + 5 * (number of the line's word fingerprints whose
\* bucket holds the id); only the candidate_limit ids with the highest scores are
\* aligned: at most candidate_limit of them, and no id left out has a strictly higher
\* score than an id that is taken.
C19_ScoreAndCut ==
    \A i \in 1..Len(calls) :
        LET taken == Range(calls[i].candidates)
            aligned == {calls[i].aligned[j].stephanos_lemma_id : j \in 1..Len(calls[i].aligned)}
        IN  /\ Range(Keys(calls[i].combined)) = {id \in LemmaIds : CandidateScore(i, id) > 0}
            /\ \A n \in 1..Len(calls[i].combined) :
                  calls[i].combined[n][2] = CandidateScore(i, calls[i].combined[n][1])
            /\ aligned = taken
            /\ Len(calls[i].aligned) = Cardinality(aligned)
            /\ Cardinality(aligned) <= args.candidate_limit
            /\ Cardinality(aligned) = Min(args.candidate_limit, Len(calls[i].combined))
            /\ \A out \in LemmaIds \ taken : \A in \in taken :
                  CandidateScore(i, out) <= CandidateScore(i, in)

\* C19 happens: a line hits more entries than candidate_limit, through character and
\* word fingerprints, and entries with a lower score are left out.
C19_Witness ==
    \E i \in 1..Len(calls) :
        /\ args.candidate_limit > 0
        /\ Len(calls[i].combined) > args.candidate_limit
        /\ Len(calls[i].aligned) = args.candidate_limit
        /\ calls[i].word_hits # <<>>
        /\ \E out \in LemmaIds \ Range(calls[i].candidates) :
              /\ CandidateScore(i, out) > 0
              /\ \A in \in Range(calls[i].candidates) :
                    CandidateScore(i, out) < CandidateScore(i, in)

\* the entry ids of the bucket of fingerprint f
BucketIds(index, f) == IF f \in DOMAIN index THEN Range(index[f]) ELSE {}

\* C20: after build_inverted_indexes(entries, char_k, word_k) an entry id is in the
\* character-index bucket of fingerprint f exactly when f is in char_shingles of the
\* entry's normalised letters with char_k, and in the word-index bucket of f exactly
\* when f is in word_shingles of its tokens with word_k; an entry with empty normalised
\* text is in no bucket, and no bucket is empty.
C20_BucketsAreShingleSets ==
    pc = "fetch_lines" =>
        LET char_sh == [e \in 1..Len(stephanos_entries) |->
                           char_shingles(stephanos_entries[e].norm_letters, args.char_k)]
            word_sh == [e \in 1..Len(stephanos_entries) |->
                           word_shingles(stephanos_entries[e].norm_words, args.word_k)]
            char_fps == (DOMAIN char_index) \cup UNION {char_sh[e] : e \in 1..Len(stephanos_entries)}
            word_fps == (DOMAIN word_index) \cup UNION {word_sh[e] : e \in 1..Len(stephanos_entries)}
        IN  /\ \A e \in 1..Len(stephanos_entries) :
                  /\ \A f \in char_fps :
                        stephanos_entries[e].lemma_id \in BucketIds(char_index, f) <=> f \in char_sh[e]
                  /\ \A f \in word_fps :
                        stephanos_entries[e].lemma_id \in BucketIds(word_index, f) <=> f \in word_sh[e]
                  /\ (stephanos_entries[e].norm_letters = <<>> /\ stephanos_entries[e].norm_words = <<>>)
                        => \A f \in char_fps \cup word_fps :
                              /\ stephanos_entries[e].lemma_id \notin BucketIds(char_index, f)
                              /\ stephanos_entries[e].lemma_id \notin BucketIds(word_index, f)
            /\ \A f \in DOMAIN char_index : char_index[f] # <<>>
            /\ \A f \in DOMAIN word_index : word_index[f] # <<>>

\* C20 happens: the indexes are built from a corpus with an entry without normalised
\* text and with entries that share a bucket.
C20_Witness ==
    /\ pc = "fetch_lines"
    /\ \E e \in 1..Len(stephanos_entries) :
          /\ stephanos_entries[e].text_body # <<>>
          /\ stephanos_entries[e].norm_letters = <<>>
          /\ stephanos_entries[e].norm_words = <<>>
    /\ \E f \in DOMAIN char_index : Len(char_index[f]) >= 2
    /\ \E f \in DOMAIN word_index : Len(word_index[f]) >= 2

RECURSIVE SpaceJoined(_)
\* the tokens of the list, with one space between neighbours
SpaceJoined(tokens) ==
    IF tokens = <<>> THEN <<>>
    ELSE IF Len(tokens) = 1 THEN tokens[1]
    ELSE tokens[1] \o <<32>> \o SpaceJoined(Tail(tokens))

\* C21: for 1 <= k <= len(text), char_shingles(text, k) is exactly the set of the
\* fingerprints of text[i : i+k] for every offset i from 0 to len(text)-k (so it has at
\* most len(text)-k+1 members), and word_shingles(words, k) is exactly the set of the
\* fingerprints of the k consecutive tokens words[i : i+k] joined by single spaces, for
\* every i from 0 to len(words)-k.
C21_ShinglesAtEveryOffset ==
    norm.done =>
        LET letters == norm.out.letters
            words == norm.out.words
            k == norm.k
        IN  /\ (1 <= k /\ k <= Len(letters)) =>
                  /\ norm.out.char_sh =
                        {IeeeCrc32(utf8_encode(SubSeq(letters, i + 1, i + k))) :
                            i \in 0..(Len(letters) - k)}
                  /\ Cardinality(norm.out.char_sh) <= Len(letters) - k + 1
            /\ (1 <= k /\ k <= Len(words)) =>
                  /\ norm.out.word_sh =
                        {IeeeCrc32(utf8_encode(SpaceJoined(SubSeq(words, i + 1, i + k)))) :
                            i \in 0..(Len(words) - k)}
                  /\ Cardinality(norm.out.word_sh) <= Len(words) - k + 1

\* C21 happens: two tokens of one letter each are shingled with k = 2, which gives one
\* character shingle and one word shingle, the latter with a space in it.
C21_Witness ==
    /\ norm.done
    /\ norm.k = 2
    /\ Len(norm.out.letters) = 2
    /\ Len(norm.out.words) = 2
    /\ Cardinality(norm.out.char_sh) = 1
    /\ Cardinality(norm.out.word_sh) = 1
    /\ norm.out.char_sh # norm.out.word_sh

\* C21 happens with several offsets: three letters, k = 2, two distinct shingles
C21_WitnessOffsets ==
    /\ norm.done
    /\ norm.k = 2
    /\ Len(norm.out.letters) = 3
    /\ Cardinality(norm.out.char_sh) = 2

\* the denominator that C22 gives for two lengths
RatioDenominator(m, n) == IF Min(m, n) >= 1 THEN Min(m, n) ELSE 1

\* the fraction r equals len / den
IsQuotient(r, len, den) == r[2] >= 1 /\ r[1] * den = len * r[2]

\* C22: for every returned match, char_lcs_ratio = char_lcs_len / max(1, min(number of
\* line letters, number of entry letters)) and word_lcs_ratio = word_lcs_len / max(1,
\* min(number of line tokens, number of entry tokens)); the denominator is never 0, and
\* when either side has no letters (or no tokens) the ratio is 0.
C22_RatiosOverShorterSide ==
    \A i \in 1..Len(calls) :
        \A j \in 1..Len(calls[i].matches) :
            LET m == calls[i].matches[j]
                entry == entries_by_id[m.stephanos_lemma_id]
                letters == RatioDenominator(Len(calls[i].line_letters), Len(entry.norm_letters))
                tokens == RatioDenominator(Len(calls[i].line_words), Len(entry.norm_words))
            IN  /\ letters >= 1
                /\ tokens >= 1
                /\ IsQuotient(m.char_lcs_ratio, m.char_lcs_len, letters)
                /\ IsQuotient(m.word_lcs_ratio, m.word_lcs_len, tokens)
                /\ (calls[i].line_letters = <<>> \/ entry.norm_letters = <<>>)
                      => m.char_lcs_ratio[1] = 0
                /\ (calls[i].line_words = <<>> \/ entry.norm_words = <<>>)
                      => m.word_lcs_ratio[1] = 0

\* C22 happens: a returned match whose line has no letters (ratio 0 over the floor 1),
\* and a returned match with a ratio strictly between 0 and 1.
C22_Witness ==
    /\ \E i \in 1..Len(calls) :
          /\ calls[i].line_letters = <<>>
          /\ calls[i].matches # <<>>
          /\ calls[i].matches[1].char_lcs_ratio[1] = 0
          /\ calls[i].matches[1].word_lcs_ratio[1] >= 1
    /\ \E i \in 1..Len(calls) :
          \E j \in 1..Len(calls[i].matches) :
              /\ calls[i].matches[j].char_lcs_ratio[1] >= 1
              /\ calls[i].matches[j].char_lcs_ratio[1] < calls[i].matches[j].char_lcs_ratio[2]

\* the indexes of a run are the ones build_inverted_indexes gives for its entries and
\* its char_k and word_k
IndexesBuilt ==
    [char_index |-> char_index, word_index |-> word_index]
        = build_inverted_indexes(stephanos_entries, args.char_k, args.word_k)

\* C23: in main, build_inverted_indexes has finished for all reference entries before
\* the first call of compute_best_matches_for_line, the indexes are never changed
\* afterwards, and every call in the run uses the char_k and word_k with which the
\* indexes were built.
C23_BuiltBeforeCallsAndKept ==
    /\ [](pc \in {"fetch_entries", "build"} => calls = <<>>)
    /\ [](pc = "fetch_lines" => (calls = <<>> /\ IndexesBuilt))
    /\ [](\A i \in 1..Len(calls) :
            calls[i].char_k = args.char_k /\ calls[i].word_k = args.word_k)
    /\ [][/\ args' = args
          /\ pc \in {"fetch_lines", "score", "done"} =>
                (char_index' = char_index /\ word_index' = word_index)
          /\ calls' # calls => pc = "score"]_vars

\* C23 happens: two lines have been scored against indexes that are not empty.
C23_Witness ==
    /\ pc = "done"
    /\ Len(calls) = 2
    /\ DOMAIN char_index # {}
    /\ DOMAIN word_index # {}
    /\ calls[1].candidates # <<>>
    /\ calls[2].candidates # <<>>

\* the place of the entry with the id in the list of entries
PlaceOf(id) == CHOOSE e \in 1..Len(stephanos_entries) : stephanos_entries[e].lemma_id = id

\* the ids of the bucket stand in the order of their entries, none twice, and ascend
BucketInOrder(bucket) ==
    \A p, q \in 1..Len(bucket) :
        p < q => (PlaceOf(bucket[p]) < PlaceOf(bucket[q]) /\ bucket[p] < bucket[q])

\* C24: in every bucket of both indexes the ids stand in the order in which their
\* entries were processed and each entry's id occurs at most once, so every bucket is
\* in strictly ascending id order when the entries are supplied in ascending order of
\* distinct ids.
C24_BucketsInEntryOrder ==
    pc = "fetch_lines" =>
        /\ \A e \in 1..(Len(stephanos_entries) - 1) :
              stephanos_entries[e].lemma_id < stephanos_entries[e + 1].lemma_id
        /\ \A f \in DOMAIN char_index : BucketInOrder(char_index[f])
        /\ \A f \in DOMAIN word_index : BucketInOrder(word_index[f])

\* C24 happens: a bucket of each index holds the ids of several entries.
C24_Witness ==
    /\ pc = "fetch_lines"
    /\ \E f \in DOMAIN char_index : Len(char_index[f]) >= 3
    /\ \E f \in DOMAIN word_index : Len(word_index[f]) >= 2

\* the sequences a and b have a common contiguous block of k items
SharesBlock(a, b, k) ==
    \E p \in 1..(Len(a) - k + 1) : \E q \in 1..(Len(b) - k + 1) :
        SubSeq(a, p, p + k - 1) = SubSeq(b, q, q + k - 1)

\* C25 (no missed candidate): if the normalised letters of the line and of an entry
\* share a contiguous block of at least char_k letters (char_k >= 1), or their token
\* lists share at least word_k consecutive tokens (word_k >= 1), the entry's combined
\* score is at least 1, and the entry is aligned whenever the number of ids with a
\* non-zero score does not exceed candidate_limit.
C25_NoMissedCandidate ==
    \A i \in 1..Len(calls) :
        \A e \in 1..Len(stephanos_entries) :
            LET entry == stephanos_entries[e]
                shares ==
                    \/ (args.char_k >= 1
                            /\ SharesBlock(calls[i].line_letters, entry.norm_letters, args.char_k))
                    \/ (args.word_k >= 1
                            /\ SharesBlock(calls[i].line_words, entry.norm_words, args.word_k))
            IN  shares =>
                    /\ Get(calls[i].combined, entry.lemma_id, 0) >= 1
                    /\ Len(calls[i].combined) <= args.candidate_limit =>
                          \E j \in 1..Len(calls[i].aligned) :
                              calls[i].aligned[j].stephanos_lemma_id = entry.lemma_id

\* C25 happens: one line shares a block of letters with two entries, which are scored
\* and aligned, and nothing with a third, which is not; another line shares only a token
\* with an entry, which is scored and aligned.
C25_Witness ==
    /\ \E i \in 1..Len(calls) :
          /\ Len(calls[i].combined) <= args.candidate_limit
          /\ Len(calls[i].aligned) >= 2
          /\ \E e \in 1..Len(stephanos_entries) :
                /\ SharesBlock(calls[i].line_letters, stephanos_entries[e].norm_letters, args.char_k)
                /\ Get(calls[i].combined, stephanos_entries[e].lemma_id, 0) >= 1
          /\ \E e \in 1..Len(stephanos_entries) :
                Get(calls[i].combined, stephanos_entries[e].lemma_id, 0) = 0
    /\ \E i \in 1..Len(calls) :
          /\ Len(calls[i].aligned) = 1
          /\ \E e \in 1..Len(stephanos_entries) :
                /\ ~SharesBlock(calls[i].line_letters, stephanos_entries[e].norm_letters, args.char_k)
                /\ SharesBlock(calls[i].line_words, stephanos_entries[e].norm_words, args.word_k)
                /\ calls[i].aligned[1].stephanos_lemma_id = stephanos_entries[e].lemma_id

\* C26: no reference id occurs in more than one match of the list that
\* compute_best_matches_for_line returns, so main never builds two rows with the same
\* (run_id, herodian_line_id, stephanos_lemma_id) as long as the line ids are distinct.
C26_NoRepeatedReference ==
    /\ \A i \in 1..Len(calls) :
          \A p, q \in 1..Len(calls[i].matches) :
              p # q => calls[i].matches[p].stephanos_lemma_id # calls[i].matches[q].stephanos_lemma_id
    /\ (\A p, q \in 1..Len(herodian_lines) : p # q => herodian_lines[p].id # herodian_lines[q].id)
          => \A r, t \in 1..Len(rows_to_insert) :
                r # t =>
                    <<rows_to_insert[r].herodian_line_id, rows_to_insert[r].stephanos_lemma_id>>
                        # <<rows_to_insert[t].herodian_line_id, rows_to_insert[t].stephanos_lemma_id>>

\* C26 happens: two lines with the same text have been scored, each call returns
\* several matches, among them an entry hit by character and by word shingles, and the
\* rows hold each reference id once per line.
C26_Witness ==
    /\ Len(calls) = 2
    /\ calls[1].line_text = calls[2].line_text
    /\ Len(calls[1].matches) >= 2
    /\ \E j \in 1..Len(calls[1].matches) :
          /\ calls[1].matches[j].shared_char_shingles >= 1
          /\ calls[1].matches[j].shared_word_shingles >= 1
    /\ Len(rows_to_insert) = Len(calls[1].matches) + Len(calls[2].matches)

(***************************************************************************)
(* Claims about the transaction of main (SpecTxn).                         *)
(***************************************************************************)
\* the runs and the match rows that the run has made visible to other sessions
CommittedRuns == db.committed.runs \ db.before.runs

CommittedMatches == db.committed.matches \ db.before.matches

\* C27: the run row, all match rows and the finished_at update are in one transaction
\* that commits only after every line has been scored: nothing is visible before the
\* block is left; if a statement or the scoring raises, neither the run row nor any
\* match row is committed; a committed run has finished_at set and all of its matches
\* present; a run with zero matches is committed with finished_at set and without the
\* INSERT of matches having been executed.
C27_AtomicRun ==
    /\ db.before.runs \subseteq db.committed.runs
    /\ db.before.matches \subseteq db.committed.matches
    /\ pc # "closed" => CommittedRuns = {} /\ CommittedMatches = {}
    /\ db.raised => CommittedRuns = {} /\ CommittedMatches = {}
    /\ \A r \in CommittedRuns :
          /\ r = RunRow(db.run_id, TRUE)
          /\ Len(calls) = Len(herodian_lines)
          /\ CommittedMatches = RowsOfRun(r.id, rows_to_insert)
    /\ CommittedMatches # {} => CommittedRuns # {}
    /\ (pc = "closed" /\ ~db.raised) => CommittedRuns = {RunRow(db.run_id, TRUE)}
    /\ (pc = "closed" /\ ~db.raised /\ rows_to_insert = <<>>) =>
          ~db.match_insert /\ CommittedMatches = {}

\* C27 happens: a run over two lines has committed its run row, finished, together
\* with several match rows, next to an earlier run.
C27_Witness ==
    /\ pc = "closed"
    /\ ~db.raised
    /\ db.before.runs # {}
    /\ Len(herodian_lines) = 2
    /\ Cardinality(CommittedMatches) >= 2
    /\ CommittedRuns = {RunRow(2, TRUE)}

\* C27 happens: the block was left by an exception after the run row was inserted and
\* a line had given rows, and nothing was committed.
C27_WitnessRaised ==
    /\ pc = "closed"
    /\ db.raised
    /\ db.run_id # 0
    /\ rows_to_insert # <<>>
    /\ db.committed = db.before

\* C27 happens: a run over a line without any match is committed, finished, and the
\* INSERT of matches was not executed.
C27_WitnessNoMatches ==
    /\ pc = "closed"
    /\ ~db.raised
    /\ Len(herodian_lines) >= 1
    /\ rows_to_insert = <<>>
    /\ ~db.match_insert
    /\ CommittedRuns # {}

\* the fraction r lies between 0 and 1 inclusive
InUnitInterval(r) == r[2] >= 1 /\ 0 <= r[1] /\ r[1] <= r[2]

\* C28: for every returned match, 0 <= char_lcs_len <= min(number of line letters,
\* number of entry letters), 0 <= word_lcs_len <= min(number of line tokens, number of
\* entry tokens), both ratios lie between 0 and 1 inclusive, and
\* shared_char_shingles + shared_word_shingles >= 1.
C28_MatchFieldsBounded ==
    \A i \in 1..Len(calls) :
        \A j \in 1..Len(calls[i].matches) :
            LET m == calls[i].matches[j]
                entry == entries_by_id[m.stephanos_lemma_id]
            IN  /\ 0 <= m.char_lcs_len
                /\ m.char_lcs_len <= Len(calls[i].line_letters)
                /\ m.char_lcs_len <= Len(entry.norm_letters)
                /\ 0 <= m.word_lcs_len
                /\ m.word_lcs_len <= Len(calls[i].line_words)
                /\ m.word_lcs_len <= Len(entry.norm_words)
                /\ InUnitInterval(m.char_lcs_ratio)
                /\ InUnitInterval(m.word_lcs_ratio)
                /\ m.shared_char_shingles + m.shared_word_shingles >= 1

\* C28 happens: the returned matches of a run include one whose letter block is as long
\* as the shorter side (ratio 1), one without any common letter block (length 0, found
\* through one word shingle only), and one with a ratio strictly between 0 and 1.
C28_Witness ==
    /\ \E i \in 1..Len(calls) :
          \E j \in 1..Len(calls[i].matches) :
              LET m == calls[i].matches[j]
              IN  /\ m.char_lcs_len >= 2
                  /\ m.char_lcs_len = Min(Len(calls[i].line_letters),
                                          Len(entries_by_id[m.stephanos_lemma_id].norm_letters))
                  /\ m.char_lcs_ratio = <<1, 1>>
    /\ \E i \in 1..Len(calls) :
          \E j \in 1..Len(calls[i].matches) :
              LET m == calls[i].matches[j]
              IN  /\ m.char_lcs_len = 0
                  /\ m.shared_char_shingles + m.shared_word_shingles = 1
    /\ \E i \in 1..Len(calls) :
          \E j \in 1..Len(calls[i].matches) :
              LET m == calls[i].matches[j]
              IN  0 < m.char_lcs_ratio[1] /\ m.char_lcs_ratio[1] < m.char_lcs_ratio[2]

\* C29 as stated: for every text, joining the tokens of normalize_greek_words with no
\* separator gives exactly normalize_greek_letters of the text, so the letter stream and
\* the token stream are made of the same codepoints in the same order.
C29_TokensJoinToLetters ==
    norm.done =>
        /\ Flatten(norm.out.words) = norm.out.letters
        /\ Flatten(norm.other_out.words) = norm.other_out.letters

\* C30 as stated: for every integer max_matches, zero and negative values included,
\* compute_best_matches_for_line returns at most max(0, max_matches) matches.
C30_AtMostMaxMatches ==
    \A i \in 1..Len(calls) : Len(calls[i].matches) <= Max(0, args.max_matches)

=============================================================================
